---- MODULE Spec2Model ----
(***************************************************************************)
(* Hospital Price Finder (docs/js/hospital-price-finder.js): the radius    *)
(* filter, the chargemaster cache, the pattern matcher, the worker pool of *)
(* a search and the payer aggregation, as a state machine.                 *)
(*                                                                         *)
(* Encodings.  A JavaScript number that may be missing or NaN is a         *)
(* sequence: <<>> is "absent / NaN", <<n>> is the number n.  A string      *)
(* field that is absent is the empty string (the code reads every such     *)
(* field through `x || ''`).  Distances are in thousandths of a mile.      *)
(***************************************************************************)
EXTENDS Integers, Sequences, FiniteSets, TLC

(***************************************************************************)
(* Bounds of the model.                                                    *)
(***************************************************************************)
MaxGeoLen == 3        \* longest hospital table of the radius-filter runs
MaxRecs == 2          \* longest enumerated record sequence of the query runs
MaxHospitals == 2     \* longest hospital table of the search runs
MaxPoolHospitals == 5 \* longest hospital table of the worker-pool runs
MaxSearches == 2      \* searches started in one behaviour
MaxLines == 4         \* longest file of the loadHospitalJSON runs
MaxPoolSize == 4      \* largest pool of the pool-size runs

(***************************************************************************)
(* Program constants.                                                      *)
(***************************************************************************)
EARTH_MI == 3958761   \* 3958.7613 statute miles, in thousandths of a mile
HitCap == 50          \* .slice(0, 50)
pool == 4             \* const pool = 4
ShowAllMiles == 500   \* if (miles >= 500)

NaN == <<>>
Num(n) == <<n>>
isFinite(x) == x # NaN
Abs(n) == IF n < 0 THEN -n ELSE n
Min(a, b) == IF a < b THEN a ELSE b
Range(s) == {s[i] : i \in 1..Len(s)}
Take(s, n) == SubSeq(s, 1, Min(n, Len(s)))

(***************************************************************************)
(* Geo index.                                                              *)
(***************************************************************************)
\* d3.geoDistance(a, b) * EARTH_MI for two points [lon, lat] (degrees) on one
\* meridian: the angle between them is the latitude difference, converted to
\* radians with pi = 355/113.  Every point of the model has the longitude
\* LonDeg, so this is the great-circle distance of the points it is used on.
gcMiles(aLonLat, bLonLat) ==
    Abs(aLonLat[2][1] - bLonLat[2][1]) * ((355 * EARTH_MI) \div (113 * 180))

\* filterNearby with `miles > 500` for `miles >= 500`
RECURSIVE filterNearby_gt(_, _, _)
filterNearby_gt(hs, center, miles) ==
    IF hs = <<>> THEN <<>>
    ELSE LET h == Head(hs)
             keep == IF miles > ShowAllMiles
                     THEN isFinite(h.lon) /\ isFinite(h.lat)
                     ELSE /\ isFinite(h.lon)
                          /\ isFinite(h.lat)
                          /\ gcMiles(center, <<h.lon, h.lat>>) <= miles * 1000
         IN (IF keep THEN <<h>> ELSE <<>>) \o filterNearby_gt(Tail(hs), center, miles)

\* miles >= 500 ? hospitals.filter(finite) : hospitals.filter(finite && gc <= miles)
RECURSIVE filterNearby(_, _, _)
filterNearby(hs, center, miles) ==
    IF hs = <<>> THEN <<>>
    ELSE LET h == Head(hs)
             keep == IF miles >= ShowAllMiles
                     THEN isFinite(h.lon) /\ isFinite(h.lat)
                     ELSE /\ isFinite(h.lon)
                          /\ isFinite(h.lat)
                          /\ gcMiles(center, <<h.lon, h.lat>>) <= miles * 1000
         IN (IF keep THEN <<h>> ELSE <<>>) \o filterNearby(Tail(hs), center, miles)

(***************************************************************************)
(* Price records and the chargemaster files.                               *)
(***************************************************************************)
Rec(desc, code, rc, payer, est, min) ==
    [description |-> desc, code |-> code, rc_code |-> rc, payer_name |-> payer,
     estimated_amount |-> est, standard_charge_dollar |-> NaN,
     standard_charge_gross |-> NaN, standard_charge_min |-> min,
     standard_charge_max |-> NaN]

\* +x || ... : the numeric value of a field, 0 (falsy) when absent or NaN
ToNum(x) == IF x = NaN THEN 0 ELSE x[1]

\* amountOf that takes the first field that is present, zero or not
amountOf_firstPresent(r) ==
    IF r.estimated_amount # NaN THEN ToNum(r.estimated_amount)
    ELSE IF r.standard_charge_dollar # NaN THEN ToNum(r.standard_charge_dollar)
    ELSE IF r.standard_charge_gross # NaN THEN ToNum(r.standard_charge_gross)
    ELSE IF r.standard_charge_min # NaN THEN ToNum(r.standard_charge_min)
    ELSE IF r.standard_charge_max # NaN THEN ToNum(r.standard_charge_max)
    ELSE 0

amountOf(r) ==
    IF ToNum(r.estimated_amount) # 0 THEN ToNum(r.estimated_amount)
    ELSE IF ToNum(r.standard_charge_dollar) # 0 THEN ToNum(r.standard_charge_dollar)
    ELSE IF ToNum(r.standard_charge_gross) # 0 THEN ToNum(r.standard_charge_gross)
    ELSE IF ToNum(r.standard_charge_min) # 0 THEN ToNum(r.standard_charge_min)
    ELSE IF ToNum(r.standard_charge_max) # 0 THEN ToNum(r.standard_charge_max)
    ELSE 0

\* cmsRate after initializeApp: code -> rate (+r.price || 0, so a code of the
\* file whose price is missing has the rate 0; the file may hold any number)
cmsRate == ("70551" :> 100) @@ ("72148" :> 3) @@ ("71046" :> 0) @@ ("0610" :> -5)

\* Strings formatPrice builds, as sequences: <<"N/A">>, the price
\* <<"$", amount>> and the ratio <<sign, whole, hundredths, "x">>.
NA == <<"N/A">>

\* `${(amount / medicareRate).toFixed(2)}x`: toFixed rounds the magnitude to
\* the nearest hundredth, a tie upwards, and puts the sign in front
toFixed2x(amount, medicareRate) ==
    LET quot == (2 * 100 * Abs(amount) + Abs(medicareRate)) \div (2 * Abs(medicareRate))
        neg == (amount < 0) # (medicareRate < 0)
    IN <<IF neg THEN "-" ELSE "", quot \div 100, quot % 100, "x">>

\* formatPrice with `medicareRate !== 0` for `medicareRate > 0`
formatPrice_anyRate(amount, code) ==
    IF amount = NaN \/ amount[1] = 0 THEN [price |-> NA, ratio |-> NA]
    ELSE LET medicareRate == IF code \in DOMAIN cmsRate THEN cmsRate[code] ELSE 0
         IN [price |-> <<"$", amount[1]>>,
             ratio |-> IF code # "" /\ medicareRate # 0
                       THEN toFixed2x(amount[1], medicareRate) ELSE NA]

\* formatPrice that returns early only when the amount is missing
formatPrice_missingOnly(amount, code) ==
    IF amount = NaN THEN [price |-> NA, ratio |-> NA]
    ELSE LET medicareRate == IF code \in DOMAIN cmsRate THEN cmsRate[code] ELSE 0
         IN [price |-> <<"$", amount[1]>>,
             ratio |-> IF code # "" /\ medicareRate > 0
                       THEN toFixed2x(amount[1], medicareRate) ELSE NA]

\* formatPrice(amount, code)
formatPrice(amount, code) ==
    IF amount = NaN \/ amount[1] = 0 THEN [price |-> NA, ratio |-> NA]
    ELSE LET medicareRate == IF code \in DOMAIN cmsRate THEN cmsRate[code] ELSE 0
         IN [price |-> <<"$", amount[1]>>,
             ratio |-> IF code # "" /\ medicareRate > 0
                       THEN toFixed2x(amount[1], medicareRate) ELSE NA]

\* parseFloat(a.estimated_amount) || 0
sortAmount(r) == ToNum(r.estimated_amount)

\* A line of a file, by what JSON.parse makes of it: the text of the object r,
\* a text JSON.parse throws on, the text `null`, or the text of a number (a
\* value that is not an object; every field read from it is undefined, as from
\* the object {}).
rNone == Rec("", "", "", "", NaN, NaN)
Line(r) == [kind |-> "object", value |-> r]
BadLine == [kind |-> "malformed", value |-> rNone]
NullLine == [kind |-> "null", value |-> rNone]
ScalarLine == [kind |-> "scalar", value |-> rNone]

\* parseLines that gives up at the first line JSON.parse throws on
RECURSIVE parseLines_stop(_)
parseLines_stop(lines) ==
    IF lines = <<>> THEN <<>>
    ELSE IF Head(lines).kind \in {"malformed", "null"} THEN <<>>
    ELSE <<Head(lines).value>> \o parseLines_stop(Tail(lines))

\* text.trim().split('\n').map(JSON.parse or null).filter(obj => obj !== null)
RECURSIVE parseLines(_)
parseLines(lines) ==
    IF lines = <<>> THEN <<>>
    ELSE (IF Head(lines).kind \in {"malformed", "null"} THEN <<>>
          ELSE <<Head(lines).value>>)
         \o parseLines(Tail(lines))

(***************************************************************************)
(* Pattern matcher.  A pattern is its source string; RegexMatches gives,   *)
(* for the patterns of the model, the field values new RegExp(p, 'i')      *)
(* matches.  A pattern outside its domain does not compile.                *)
(***************************************************************************)
RegexMatches ==
    [p \in {"MRI", "(MRI|70551)|^70551$", "^0610$"} |->
        CASE p = "MRI" -> {"MRI BRAIN", "mri spine"}
          [] p = "(MRI|70551)|^70551$" -> {"MRI BRAIN", "mri spine", "70551"}
          [] p = "^0610$" -> {"0610"}]
BadPattern == "("
RegexCompiles(p) == p \in DOMAIN RegexMatches
RegexTest(p, s) == s \in RegexMatches[p]

\* getSearchCodeField that searches `code` in both modes
getSearchCodeField_code(configType) == "code"

\* currentConfigType === 'service' ? 'code' : 'rc_code'
getSearchCodeField(configType) == IF configType = "service" THEN "code" ELSE "rc_code"

\* the callback of jsonData.filter
recordMatches(record, regexOrCode, selectedPayer, configType) ==
    LET description == record.description
        code == record[getSearchCodeField(configType)]
        matchesRegex == RegexTest(regexOrCode, description) \/ RegexTest(regexOrCode, code)
        matchesPayer == \/ selectedPayer = ""
                        \/ (record.payer_name # "" /\ record.payer_name = selectedPayer)
    IN matchesRegex /\ matchesPayer

RECURSIVE filterRecords(_, _, _, _)
filterRecords(jsonData, regexOrCode, selectedPayer, configType) ==
    IF jsonData = <<>> THEN <<>>
    ELSE (IF recordMatches(Head(jsonData), regexOrCode, selectedPayer, configType)
          THEN <<Head(jsonData)>> ELSE <<>>)
         \o filterRecords(Tail(jsonData), regexOrCode, selectedPayer, configType)

\* insertSorted that puts a record in front of the records with its amount
RECURSIVE insertSorted_unstable(_, _)
insertSorted_unstable(sorted, r) ==
    IF sorted = <<>> THEN <<r>>
    ELSE IF sortAmount(Head(sorted)) - sortAmount(r) < 0
         THEN <<Head(sorted)>> \o insertSorted_unstable(Tail(sorted), r)
         ELSE <<r>> \o sorted

\* Array.prototype.sort with (a, b) => aAmount - bAmount: a stable sort
RECURSIVE insertSorted(_, _)
insertSorted(sorted, r) ==
    IF sorted = <<>> THEN <<r>>
    ELSE IF sortAmount(Head(sorted)) - sortAmount(r) <= 0
         THEN <<Head(sorted)>> \o insertSorted(Tail(sorted), r)
         ELSE <<r>> \o sorted

\* sortMatches without the sort
sortMatches_unsorted(matches) == matches

\* sortMatches by a sort that is not stable
RECURSIVE sortMatches_unstable(_)
sortMatches_unstable(matches) ==
    IF matches = <<>> THEN <<>>
    ELSE insertSorted_unstable(sortMatches_unstable(SubSeq(matches, 1, Len(matches) - 1)),
                               matches[Len(matches)])

RECURSIVE sortMatches(_)
sortMatches(matches) ==
    IF matches = <<>> THEN <<>>
    ELSE insertSorted(sortMatches(SubSeq(matches, 1, Len(matches) - 1)),
                      matches[Len(matches)])

\* queryLoaded without .slice(0, 50)
queryLoaded_nocap(jsonData, regexOrCode, selectedPayer, configType) ==
    IF ~RegexCompiles(regexOrCode) THEN <<>>
    ELSE sortMatches(filterRecords(jsonData, regexOrCode, selectedPayer, configType))

\* queryLoaded that sorts before it slices
queryLoaded_sortFirst(jsonData, regexOrCode, selectedPayer, configType) ==
    IF ~RegexCompiles(regexOrCode) THEN <<>>
    ELSE Take(sortMatches(filterRecords(jsonData, regexOrCode, selectedPayer, configType)),
              HitCap)

\* queryLoaded that returns the first records of the file when the pattern
\* does not compile
queryLoaded_unfiltered(jsonData, regexOrCode, selectedPayer, configType) ==
    IF ~RegexCompiles(regexOrCode) THEN Take(jsonData, HitCap)
    ELSE sortMatches(Take(filterRecords(jsonData, regexOrCode, selectedPayer, configType),
                          HitCap))

\* queryHospitalJSON after its load returned jsonData; a pattern that does not
\* compile throws inside the try and the catch returns []
queryLoaded(jsonData, regexOrCode, selectedPayer, configType) ==
    IF ~RegexCompiles(regexOrCode) THEN <<>>
    ELSE sortMatches(Take(filterRecords(jsonData, regexOrCode, selectedPayer, configType),
                          HitCap))

(***************************************************************************)
(* The alternative query variants.  A row of a decoded Arrow table carries *)
(* its amounts as numbers (NaN: null or absent); a row of d3.csv carries   *)
(* every cell as text, <<s>>, or not at all, <<>>.                         *)
(***************************************************************************)
Cell(s) == <<s>>
Absent == <<>>

\* unary plus on a CSV cell: +undefined and +"n/a" are NaN, +"" is 0
unaryPlus(cell) ==
    IF cell = Absent THEN NaN
    ELSE CASE cell[1] = "" -> Num(0)
           [] cell[1] = "40" -> Num(40)
           [] cell[1] = "100" -> Num(100)
           [] cell[1] = "300" -> Num(300)
           [] OTHER -> NaN

\* the record both variants build from a row, the amounts given
altRecord(row, est, min, max) ==
    [description |-> row.description, code_1 |-> row.code_1, estimated_amount |-> est,
     standard_charge_min |-> min, standard_charge_max |-> max]

\* records.sort((a, b) => (a.estimated_amount || 0) - (b.estimated_amount || 0))
RECURSIVE insertRecord(_, _)
insertRecord(sorted, r) ==
    IF sorted = <<>> THEN <<r>>
    ELSE IF ToNum(Head(sorted).estimated_amount) - ToNum(r.estimated_amount) <= 0
         THEN <<Head(sorted)>> \o insertRecord(Tail(sorted), r)
         ELSE <<r>> \o sorted

\* sortRecords without the sort
sortRecords_unsorted(records) == records

RECURSIVE sortRecords(_)
sortRecords(records) ==
    IF records = <<>> THEN <<>>
    ELSE insertRecord(sortRecords(SubSeq(records, 1, Len(records) - 1)),
                      records[Len(records)])

\* the for loop of queryHospitalParquet from row i on, records collected so far
RECURSIVE scanRows(_, _, _, _)
scanRows(table, regexOrCode, i, records) ==
    IF i > Len(table) THEN records
    ELSE LET row == table[i]
             description == row.description
             pushed == IF RegexTest(regexOrCode, description)
                       THEN Append(records,
                                   altRecord(row, row.estimated_amount,
                                             row.standard_charge_min,
                                             row.standard_charge_max))
                       ELSE records
         IN IF Len(pushed) >= HitCap THEN pushed
            ELSE scanRows(table, regexOrCode, i + 1, pushed)

\* queryHospitalParquet on a file holding `table`; ok: the response status,
\* decodes: Arrow.tableFromIPC accepts the buffer
queryHospitalParquet(table, regexOrCode, ok, decodes) ==
    IF regexOrCode = "" THEN <<>>
    ELSE IF ~ok \/ ~decodes \/ ~RegexCompiles(regexOrCode) THEN <<>>
    ELSE sortRecords(scanRows(table, regexOrCode, 1, <<>>))

RECURSIVE filterRows(_, _)
filterRows(data, regexOrCode) ==
    IF data = <<>> THEN <<>>
    ELSE (IF RegexTest(regexOrCode, Head(data).description) THEN <<Head(data)>> ELSE <<>>)
         \o filterRows(Tail(data), regexOrCode)

\* the callback of .map
mapRow(d) ==
    altRecord(d, unaryPlus(d.estimated_amount), unaryPlus(d.standard_charge_min),
              unaryPlus(d.standard_charge_max))

\* queryHospitalCSV on a file holding `data`; ok: d3.csv resolves
queryHospitalCSV(data, regexOrCode, ok) ==
    IF regexOrCode = "" THEN <<>>
    ELSE IF ~ok \/ ~RegexCompiles(regexOrCode) THEN <<>>
    ELSE LET kept == Take(filterRows(data, regexOrCode), HitCap)
         IN sortRecords([k \in DOMAIN kept |-> mapRow(kept[k])])

(***************************************************************************)
(* The tables the application has loaded (initializeApp) and the files the *)
(* server holds.                                                           *)
(***************************************************************************)
LonDeg == -79
ZIP == ("27710" :> <<36, LonDeg>>) @@ ("00501" :> <<41, LonDeg>>)   \* zip -> [lat, lon]
services == ("MRI scan" :> "MRI")                 \* name -> RegExp.source
revenueCodes == ("Radiology" :> "^0610$")
ENABLE_PRICES == TRUE

\* rawZip.padStart(5, '0').slice(-5), on the ZIP inputs of the model
padZip(rawZip) ==
    CASE rawZip = "501" -> "00501"
      [] rawZip = "127710" -> "27710"
      [] rawZip = "" -> "00000"
      [] OTHER -> rawZip

\* String.prototype.trim, on the payer names of the model
trim(s) ==
    CASE s = " Aetna " -> "Aetna"
      [] s = "  " -> ""
      [] OTHER -> s

\* the order Array.prototype.sort() puts the payer names of the model in
\* (UTF-16 code units: "  " < " Aetna " < "Aetna" < "Cigna" < "aetna")
StrRank == ("  " :> -1) @@ (" Aetna " :> 0) @@ ("Aetna" :> 1) @@ ("Cigna" :> 2)
           @@ ("aetna" :> 3)

rMRI == Rec("MRI BRAIN", "70551", "0610", "Aetna", Num(300), NaN)
rSpine == Rec("mri spine", "72148", "", "", NaN, Num(500))
rXray == Rec("XRAY CHEST", "71046", "70551", "Cigna", Num(100), NaN)
rCheap == Rec("MRI BRAIN", "70551", "0610", "Cigna", Num(100), NaN)
rZero == Rec("", "70551", "", "Cigna", Num(0), NaN)
rOther == Rec("XRAY CHEST", "71046", "0320", " Aetna ", Num(200), Num(150))
rBlank == Rec("XRAY CHEST", "71046", "0320", "  ", Num(50), NaN)
rPadded == Rec("MRI BRAIN", "70551", "0610", " Aetna ", Num(200), NaN)
RecordPool == {rMRI, rSpine, rXray, rCheap, rZero, rOther, rPadded}

\* a file with more matching records than the cap, the cheapest ones last
BigLen == HitCap + 2
rBig(k) == Rec("MRI BRAIN", "70551", "0610", "Aetna", Num(BigLen + 1 - k), NaN)
BigData == [k \in 1..BigLen |-> rBig(k)]

Paths == {"a.json", "b.json"}
files ==
    [p \in Paths |->
        IF p = "a.json"
        THEN <<Line(rMRI), BadLine, Line(rSpine), Line(rXray), Line(rCheap),
               Line(rOther), Line(rBlank)>>
        ELSE [k \in 1..BigLen |-> Line(rBig(k))]]

Hospital(id, lat, path) == [id |-> id, lat |-> lat, lon |-> Num(LonDeg), json_path |-> path]

VARIABLES
    hospitals,            \* the hospital table (let hospitals)
    cfg,                  \* the inputs the user may give in this behaviour
    uiEvents,             \* user events so far: [go, config], the value of
                          \* $zip at the last search and the invocation of
                          \* go() that was started last (slot, 0: none)
    jsonCache,            \* const jsonCache = new Map(): path -> records
    stats,                \* what the last step did, per path: loads called,
                          \* fetches issued, files parsed, fetches failed
    parseCount,           \* per path: how often its file was parsed so far
    returns,              \* the loadHospitalJSON calls that returned in the last step
    currentConfigType,    \* let currentConfigType
    payerValue,           \* $payer.value
    payerOptions,         \* the payers offered by the $payer dropdown
    status,               \* $status.textContent, as a tag
    currentHospitalList,  \* let currentHospitalList
    currentHitsById,      \* let currentHitsById
    go,                   \* the invocations of go(): slot -> locals and position
    geo,                  \* a run of the radius filter alone
    qry,                  \* a run of the query of loaded records alone
    ld,                   \* a run of loadHospitalJSON alone
    fmt,                  \* a run of amountOf and formatPrice alone
    alt                   \* a run of queryHospitalParquet or queryHospitalCSV alone

vars == <<hospitals, cfg, uiEvents, jsonCache, stats, parseCount, returns, currentConfigType,
          payerValue, payerOptions, status, currentHospitalList, currentHitsById,
          go, geo, qry, ld, fmt, alt>>
appVars == <<hospitals, cfg, uiEvents, jsonCache, stats, parseCount, returns, currentConfigType,
             payerValue, payerOptions, status, currentHospitalList, currentHitsById, go>>

EmptyMap == <<>>
MapSet(m, k, v) == (k :> v) @@ m
IdleGo ==
    [pc |-> "idle", nearby |-> <<>>, miles |-> 0, searchPattern |-> "",
     selectedPayer |-> "", tasks |-> <<>>, payerSet |-> {}, hitsById |-> EmptyMap,
     i |-> 0, workers |-> <<>>, fetches |-> [p \in Paths |-> 0]]
Slots == DOMAIN go

(***************************************************************************)
(* Chargemaster cache.                                                     *)
(***************************************************************************)
\* loadHospitalJSON without the cache check
loadHospitalJSON_nocache(cache, jsonPath) ==
    IF jsonPath = "" THEN [st |-> "returned", data |-> <<>>, via |-> "nopath"]
    ELSE [st |-> "fetching", data |-> <<>>, via |-> "fetch"]

\* loadHospitalJSON(jsonPath) up to its first await: an empty path and a
\* cached path return at once, any other path issues a fetch
loadHospitalJSON(cache, jsonPath) ==
    IF jsonPath = "" THEN [st |-> "returned", data |-> <<>>, via |-> "nopath"]
    ELSE IF jsonPath \in DOMAIN cache
         THEN [st |-> "returned", data |-> cache[jsonPath], via |-> "cache"]
         ELSE [st |-> "fetching", data |-> <<>>, via |-> "fetch"]

\* loadHospitalJSON after its fetch settled: the parsed lines, or [] from the
\* catch when the fetch failed or the status was not ok
loadSettled(jsonPath, ok) == IF ok THEN parseLines(files[jsonPath]) ELSE <<>>

\* cacheAfter with the jsonCache.set also in the catch
cacheAfter_poison(cache, jsonPath, ok, jsonData) == MapSet(cache, jsonPath, jsonData)

\* cacheAfter that drops the entry of the path when a fetch of it failed
cacheAfter_evict(cache, jsonPath, ok, jsonData) ==
    IF ok THEN MapSet(cache, jsonPath, jsonData)
    ELSE [q \in DOMAIN cache \ {jsonPath} |-> cache[q]]

\* jsonCache.set(jsonPath, jsonData), reached only when the fetch succeeded
cacheAfter(cache, jsonPath, ok, jsonData) ==
    IF ok THEN MapSet(cache, jsonPath, jsonData) ELSE cache

\* cacheAfterQuery when the query sorts the array it was given, which is the
\* cached one
cacheAfterQuery_inPlace(cache, jsonPath) ==
    IF jsonPath \in DOMAIN cache
    THEN MapSet(cache, jsonPath, sortMatches(cache[jsonPath]))
    ELSE cache

\* the cache after queryHospitalJSON worked on the array loadHospitalJSON
\* returned, which is the cached array itself: filter() and slice() build new
\* arrays and sort() sorts the new one, so the cached array stays as it is
cacheAfterQuery(cache, jsonPath) == cache

\* loadHospitalJSON(jsonPath) from its call to its return, when the server
\* answers a fetch of the path with the text `lines` (ok) or the fetch fails:
\* what it returns, the cache it leaves and the fetches it issued
loadWhole(cache, jsonPath, lines, ok) ==
    LET first == loadHospitalJSON(cache, jsonPath) IN
    IF first.st = "returned"
    THEN [data |-> first.data, cache |-> cache, fetches |-> 0]
    ELSE LET jsonData == IF ok THEN parseLines(lines) ELSE <<>>
         IN [data |-> jsonData, cache |-> cacheAfter(cache, jsonPath, ok, jsonData),
             fetches |-> 1]

NoLoads == [p \in Paths |-> [calls |-> 0, fetches |-> 0, parses |-> 0, fails |-> 0]]
Parsed(st) == [p \in Paths |-> parseCount[p] + st[p].parses]
Ret(path, data, via) == [path |-> path, data |-> data, via |-> via]
Bump(st, p, f, n) == [st EXCEPT ![p][f] = @ + n]

\* the fetches of path p that are outstanding
TaskFetchesOf(g, p) ==
    {k \in DOMAIN go[g].tasks :
        go[g].tasks[k].st = "fetching" /\ go[g].nearby[k].json_path = p}
WorkerFetches(g) ==
    {w \in DOMAIN go[g].workers : go[g].workers[w].st = "fetching"}
WorkerFetchesOf(g, p) ==
    {w \in WorkerFetches(g) : go[g].nearby[go[g].workers[w].h].json_path = p}
InFlight(p) ==
    Cardinality(UNION {{<<g, "task", k>> : k \in TaskFetchesOf(g, p)} : g \in Slots})
    + Cardinality(UNION {{<<g, "worker", w>> : w \in WorkerFetchesOf(g, p)} : g \in Slots})

(***************************************************************************)
(* Payer aggregation.                                                      *)
(***************************************************************************)
\* payersOf that adds the names as they are in the file
payersOf_raw(jsonData) ==
    {r.payer_name : r \in {x \in Range(jsonData) :
                              x.payer_name # "" /\ trim(x.payer_name) # ""}}

\* jsonData.forEach(record => payerSet.add(record.payer_name.trim())) for the
\* records with a payer_name that is not blank
payersOf(jsonData) ==
    {trim(r.payer_name) : r \in {x \in Range(jsonData) :
                                    x.payer_name # "" /\ trim(x.payer_name) # ""}}

\* payerTasks that fetch every file without asking the cache
payerTasks_direct(hospitalList, cache) ==
    [k \in 1..Len(hospitalList) |->
        IF hospitalList[k].json_path = "" THEN [st |-> "skip", data |-> <<>>]
        ELSE [st |-> "fetching", data |-> <<>>]]

\* getUniquePayers up to its await: one task per hospital, each calling
\* loadHospitalJSON unless the hospital has no json_path
payerTasks(hospitalList, cache) ==
    [k \in 1..Len(hospitalList) |->
        IF hospitalList[k].json_path = "" THEN [st |-> "skip", data |-> <<>>]
        ELSE LET r == loadHospitalJSON(cache, hospitalList[k].json_path)
             IN [st |-> IF r.st = "returned" THEN "cached" ELSE "fetching",
                 data |-> r.data]]

\* payersJoined that resolves with the first task that finishes (Promise.race)
payersJoined_any(tasks) ==
    \/ tasks = <<>>
    \/ \E k \in DOMAIN tasks : tasks[k].st \in {"skip", "done"}

\* await Promise.all(promises) resolves: every task returned, the ones of
\* the hospitals without json_path at once
payersJoined(tasks) == \A k \in DOMAIN tasks : tasks[k].st \in {"skip", "done"}

\* Array.from(payerSet).sort()
RECURSIVE sortedPayers(_)
sortedPayers(set) ==
    IF set = {} THEN <<>>
    ELSE LET first == CHOOSE x \in set : \A y \in set : StrRank[x] <= StrRank[y]
         IN <<first>> \o sortedPayers(set \ {first})

\* populatePayerDropdown: the value of $payer after the options were rebuilt
populatePayerDropdown(currentSelection, payers) ==
    IF currentSelection # "" /\ currentSelection \in Range(payers)
    THEN currentSelection ELSE ""

(***************************************************************************)
(* Worker pool of go().                                                    *)
(***************************************************************************)
DoneWorker == [st |-> "done", h |-> 0, data |-> <<>>]

\* worker with `while (i < nearby.length - 1)`
RECURSIVE worker_offbyone(_, _, _, _)
worker_offbyone(nearby, searchPattern, cache, r) ==
    IF ~(r.i < Len(nearby) - 1) THEN [r EXCEPT !.w = DoneWorker]
    ELSE LET h == nearby[r.i + 1] IN
         IF ENABLE_PRICES /\ searchPattern # "" /\ h.json_path # ""
         THEN LET l == loadHospitalJSON(cache, h.json_path) IN
              IF l.st = "returned"
              THEN [r EXCEPT !.i = @ + 1,
                             !.w = [st |-> "cached", h |-> r.i + 1, data |-> l.data],
                             !.returns = @ \cup {Ret(h.json_path, l.data, l.via)}]
              ELSE [r EXCEPT !.i = @ + 1,
                             !.w = [st |-> "fetching", h |-> r.i + 1, data |-> <<>>]]
         ELSE worker_offbyone(nearby, searchPattern, cache,
                              [r EXCEPT !.i = @ + 1, !.hitsById = MapSet(@, h.id, <<>>)])

\* worker that reads nearby[i] before its await and leaves the increment of i
\* for later
RECURSIVE worker_noIncrement(_, _, _, _)
worker_noIncrement(nearby, searchPattern, cache, r) ==
    IF ~(r.i < Len(nearby)) THEN [r EXCEPT !.w = DoneWorker]
    ELSE LET h == nearby[r.i + 1] IN
         IF ENABLE_PRICES /\ searchPattern # "" /\ h.json_path # ""
         THEN LET l == loadHospitalJSON(cache, h.json_path) IN
              IF l.st = "returned"
              THEN [r EXCEPT !.w = [st |-> "cached", h |-> r.i + 1, data |-> l.data],
                             !.returns = @ \cup {Ret(h.json_path, l.data, l.via)}]
              ELSE [r EXCEPT !.w = [st |-> "fetching", h |-> r.i + 1, data |-> <<>>]]
         ELSE worker_noIncrement(nearby, searchPattern, cache,
                                 [r EXCEPT !.i = @ + 1, !.hitsById = MapSet(@, h.id, <<>>)])

\* worker without the test of h.json_path
RECURSIVE worker_anyPath(_, _, _, _)
worker_anyPath(nearby, searchPattern, cache, r) ==
    IF ~(r.i < Len(nearby)) THEN [r EXCEPT !.w = DoneWorker]
    ELSE LET h == nearby[r.i + 1] IN
         IF ENABLE_PRICES /\ searchPattern # ""
         THEN LET l == loadHospitalJSON(cache, h.json_path) IN
              IF l.st = "returned"
              THEN [r EXCEPT !.i = @ + 1,
                             !.w = [st |-> "cached", h |-> r.i + 1, data |-> l.data],
                             !.returns = @ \cup {Ret(h.json_path, l.data, l.via)}]
              ELSE [r EXCEPT !.i = @ + 1,
                             !.w = [st |-> "fetching", h |-> r.i + 1, data |-> <<>>]]
         ELSE worker_anyPath(nearby, searchPattern, cache,
                             [r EXCEPT !.i = @ + 1, !.hitsById = MapSet(@, h.id, <<>>)])

\* one worker from the head of its while loop to its next await or its
\* return; r carries the shared cursor i, hitsById and the loads that returned
RECURSIVE worker(_, _, _, _)
worker(nearby, searchPattern, cache, r) ==
    IF ~(r.i < Len(nearby)) THEN [r EXCEPT !.w = DoneWorker]
    ELSE LET h == nearby[r.i + 1] IN
         IF ENABLE_PRICES /\ searchPattern # "" /\ h.json_path # ""
         THEN LET l == loadHospitalJSON(cache, h.json_path) IN
              IF l.st = "returned"
              THEN [r EXCEPT !.i = @ + 1,
                             !.w = [st |-> "cached", h |-> r.i + 1, data |-> l.data],
                             !.returns = @ \cup {Ret(h.json_path, l.data, l.via)}]
              ELSE [r EXCEPT !.i = @ + 1,
                             !.w = [st |-> "fetching", h |-> r.i + 1, data |-> <<>>]]
         ELSE worker(nearby, searchPattern, cache,
                     [r EXCEPT !.i = @ + 1, !.hitsById = MapSet(@, h.id, <<>>)])

\* workerCount with one worker per hospital
workerCount_perHospital(n) == n

\* the number of workers go() starts
workerCount(n) == cfg.pool

\* Array.from({length: pool}, worker): the workers start one after the other,
\* each running to its first await (r is what the worker started last left)
RECURSIVE startWorkers(_, _, _, _, _)
startWorkers(count, nearby, searchPattern, cache, acc) ==
    IF Len(acc.workers) >= count THEN acc
    ELSE CHOOSE out \in
             {startWorkers(count, nearby, searchPattern, cache,
                           [i |-> r.i, hitsById |-> r.hitsById,
                            workers |-> Append(acc.workers, r.w), returns |-> r.returns]) :
                 r \in {worker(nearby, searchPattern, cache,
                                [i |-> acc.i, hitsById |-> acc.hitsById, w |-> DoneWorker,
                                 returns |-> acc.returns])}} : TRUE

\* poolJoined that resolves with the first worker (Promise.race)
poolJoined_any(workers) == \E w \in DOMAIN workers : workers[w].st = "done"

\* await Promise.all(workers) resolves
poolJoined(workers) == \A w \in DOMAIN workers : workers[w].st = "done"

\* the loads a step started: per path, how many calls (called) and how many of
\* them issued a fetch (fetched)
Started(st, called, fetched) ==
    [p \in Paths |->
        [st[p] EXCEPT !.calls = @ + Cardinality({j \in DOMAIN called : called[j] = p}),
                      !.fetches = @ + Cardinality({j \in DOMAIN fetched : fetched[j] = p})]]

(***************************************************************************)
(* Actions.                                                                *)
(***************************************************************************)
\* preflight without the check of the hospital table
preflight_noTable(zip, hs) ==
    IF zip \notin DOMAIN ZIP THEN "zip-not-found" ELSE "ok"

\* if(!ZIP.has(zip)){ setStatus(...); return; }
\* if(!hospitals.length){ setStatus(...); return; }
preflight(zip, hs) ==
    IF zip \notin DOMAIN ZIP THEN "zip-not-found"
    ELSE IF Len(hs) = 0 THEN "no-hospitals"
    ELSE "ok"

\* go() up to `await getUniquePayers(nearby)`, triggered by the search button,
\* Enter, or a change of $radius, $unit or $payer (payerSel: the value of
\* $payer when the handler runs)
goStart(g, rawZip, miles, svcName, q, payerSel) ==
    LET zip == padZip(rawZip)
        selectedPayer == payerSel
        configMap == IF currentConfigType = "service" THEN services ELSE revenueCodes
        searchPattern ==
            IF svcName # "" /\ svcName # "custom" /\ svcName \in DOMAIN configMap
            THEN configMap[svcName]
            ELSE IF svcName = "custom" /\ q # "" THEN q ELSE ""
    IN
    /\ go[g].pc \in {"idle", "done"}
    /\ uiEvents.go < cfg.maxSearches
    /\ uiEvents' = [uiEvents EXCEPT !.go = @ + 1, !.rawZip = rawZip,
                                    !.slot = IF preflight(padZip(rawZip), hospitals) = "ok"
                                             THEN g ELSE @]
    /\ payerValue' = payerSel
    /\ UNCHANGED <<hospitals, cfg, jsonCache, parseCount, currentConfigType,
                   payerOptions, currentHospitalList, currentHitsById, geo, qry, ld, fmt, alt>>
    /\ IF preflight(zip, hospitals) # "ok"
       THEN /\ status' = preflight(zip, hospitals)
            /\ returns' = {}
            /\ stats' = NoLoads
            /\ UNCHANGED go
       ELSE LET center == <<Num(ZIP[zip][2]), Num(ZIP[zip][1])>>
                nearby == filterNearby(hospitals, center, miles)
                tasks == payerTasks(nearby, jsonCache)
                fetched == {k \in DOMAIN tasks : tasks[k].st = "fetching"}
                cached == {k \in DOMAIN tasks : tasks[k].st = "cached"}
            IN /\ status' = "loading-payers"
               /\ stats' = Started(NoLoads, [k \in fetched \cup cached |-> nearby[k].json_path],
                                      [k \in fetched |-> nearby[k].json_path])
               /\ returns' = {Ret(nearby[k].json_path, tasks[k].data, "cache") : k \in cached}
               /\ go' = [go EXCEPT ![g] =
                            [IdleGo EXCEPT !.pc = "payers", !.nearby = nearby,
                                           !.miles = miles,
                                           !.searchPattern = searchPattern,
                                           !.selectedPayer = selectedPayer,
                                           !.tasks = tasks,
                                           !.fetches = [p \in Paths |-> stats'[p].fetches]]]

\* a payer task whose load returned from the cache resumes
payerResume(g, k) ==
    /\ go[g].pc = "payers"
    /\ k \in DOMAIN go[g].tasks
    /\ go[g].tasks[k].st = "cached"
    /\ go' = [go EXCEPT ![g].tasks[k] = [st |-> "done", data |-> <<>>],
                        ![g].payerSet = @ \cup payersOf(go[g].tasks[k].data)]
    /\ returns' = {}
    /\ stats' = NoLoads
    /\ UNCHANGED <<hospitals, cfg, uiEvents, jsonCache, parseCount, currentConfigType,
                   payerValue, payerOptions, status, currentHospitalList,
                   currentHitsById, geo, qry, ld, fmt, alt>>

\* the fetch of a payer task settles: loadHospitalJSON finishes and the task
\* adds the payers of what it returned
payerFetchSettle(g, k, ok) ==
    /\ go[g].pc = "payers"
    /\ k \in DOMAIN go[g].tasks
    /\ go[g].tasks[k].st = "fetching"
    /\ LET jsonPath == go[g].nearby[k].json_path
           jsonData == loadSettled(jsonPath, ok)
       IN /\ jsonCache' = cacheAfter(jsonCache, jsonPath, ok, jsonData)
          /\ stats' = Bump(NoLoads, jsonPath, IF ok THEN "parses" ELSE "fails", 1)
          /\ parseCount' = Parsed(stats')
          /\ returns' = {Ret(jsonPath, jsonData, IF ok THEN "fetch" ELSE "error")}
          /\ go' = [go EXCEPT ![g].tasks[k] = [st |-> "done", data |-> <<>>],
                              ![g].payerSet = @ \cup payersOf(jsonData)]
    /\ UNCHANGED <<hospitals, cfg, uiEvents, currentConfigType, payerValue,
                   payerOptions, status, currentHospitalList, currentHitsById,
                   geo, qry, ld, fmt, alt>>

\* getUniquePayers resolved: go() fills the dropdown, sets the status and
\* starts the worker pool, up to `await Promise.all(...)`
goAfterPayers(g) ==
    /\ go[g].pc = "payers"
    /\ payersJoined(go[g].tasks)
    /\ \E started \in {startWorkers(workerCount(Len(go[g].nearby)), go[g].nearby,
                                      go[g].searchPattern, jsonCache,
                                      [i |-> 0, hitsById |-> EmptyMap, workers |-> <<>>,
                                       returns |-> {}])} :
       LET G == go[g]
           uniquePayers == sortedPayers(G.payerSet)
           fetched == {w \in DOMAIN started.workers : started.workers[w].st = "fetching"}
           called == {w \in DOMAIN started.workers :
                         started.workers[w].st \in {"fetching", "cached"}}
       IN /\ payerOptions' = uniquePayers
          /\ payerValue' = populatePayerDropdown(payerValue, uniquePayers)
          /\ status' = "querying"
          /\ stats' = Started(NoLoads,
                               [w \in called |-> G.nearby[started.workers[w].h].json_path],
                               [w \in fetched |-> G.nearby[started.workers[w].h].json_path])
          /\ returns' = started.returns
          /\ go' = [go EXCEPT ![g].pc = "pool", ![g].i = started.i,
                              ![g].hitsById = started.hitsById,
                              ![g].workers = started.workers,
                              ![g].fetches = [p \in Paths |-> @[p] + stats'[p].fetches]]
    /\ UNCHANGED <<hospitals, cfg, uiEvents, jsonCache, parseCount, currentConfigType,
                   currentHospitalList, currentHitsById, geo, qry, ld, fmt, alt>>

\* workerHospital when h is one variable shared by the workers: the hospital
\* claimed last
workerHospital_shared(G, w) == G.nearby[G.i]

\* `const h = nearby[i++]`: the hospital a worker claimed before its await is
\* the one it stores the hits for after it
workerHospital(G, w) == G.nearby[G.workers[w].h]

\* a worker gets the records of its hospital (jsonData, with the cache as it is
\* after the load), stores the hits and runs on to its next await or its return
workerContinue(g, w, jsonData, cache, st, rets) ==
    \E hits \in {queryLoaded(jsonData, go[g].searchPattern, go[g].selectedPayer,
                               currentConfigType)} :
    \E r \in {worker(go[g].nearby, go[g].searchPattern,
                     cacheAfterQuery(cache, workerHospital(go[g], w).json_path),
                     [i |-> go[g].i,
                      hitsById |-> MapSet(go[g].hitsById, workerHospital(go[g], w).id, hits),
                      w |-> DoneWorker, returns |-> rets])} :
    LET G == go[g]
    IN /\ stats' = IF r.w.st = "done" THEN st
                   ELSE Started(st, <<G.nearby[r.w.h].json_path>>,
                                IF r.w.st = "fetching" THEN <<G.nearby[r.w.h].json_path>>
                                ELSE <<>>)
       /\ go' = [go EXCEPT ![g].i = r.i, ![g].hitsById = r.hitsById,
                           ![g].workers[w] = r.w,
                           ![g].fetches = [p \in Paths |-> @[p] + stats'[p].fetches]]
       /\ jsonCache' = cacheAfterQuery(cache, workerHospital(G, w).json_path)
       /\ returns' = r.returns
       /\ parseCount' = Parsed(st)

\* a worker whose load returned from the cache resumes
workerResume(g, w) ==
    /\ w \in DOMAIN go[g].workers
    /\ go[g].workers[w].st = "cached"
    /\ workerContinue(g, w, go[g].workers[w].data, jsonCache, NoLoads, {})
    /\ UNCHANGED <<hospitals, cfg, uiEvents, currentConfigType, payerValue,
                   payerOptions, status, currentHospitalList, currentHitsById,
                   geo, qry, ld, fmt, alt>>

\* the fetch of a worker settles
workerFetchSettle(g, w, ok) ==
    /\ w \in DOMAIN go[g].workers
    /\ go[g].workers[w].st = "fetching"
    /\ LET jsonPath == go[g].nearby[go[g].workers[w].h].json_path
           jsonData == loadSettled(jsonPath, ok)
           cache == cacheAfter(jsonCache, jsonPath, ok, jsonData)
       IN workerContinue(g, w, jsonData, cache,
                         Bump(NoLoads, jsonPath, IF ok THEN "parses" ELSE "fails", 1),
                         {Ret(jsonPath, jsonData, IF ok THEN "fetch" ELSE "error")})
    /\ UNCHANGED <<hospitals, cfg, uiEvents, currentConfigType, payerValue,
                   payerOptions, status, currentHospitalList, currentHitsById,
                   geo, qry, ld, fmt, alt>>

\* Promise.all resolved: renderHospitals(nearby, hitsById) and the done message
goFinish(g) ==
    /\ go[g].pc = "pool"
    /\ poolJoined(go[g].workers)
    /\ currentHospitalList' = go[g].nearby
    /\ currentHitsById' = go[g].hitsById
    /\ status' = "done"
    /\ go' = [go EXCEPT ![g].pc = "done"]
    /\ returns' = {}
    /\ stats' = NoLoads
    /\ UNCHANGED <<hospitals, cfg, uiEvents, jsonCache, parseCount, currentConfigType,
                   payerValue, payerOptions, geo, qry, ld, fmt, alt>>

\* the user switches $configType
handleConfigTypeChange ==
    /\ uiEvents.config < cfg.maxConfigChanges
    /\ uiEvents' = [uiEvents EXCEPT !.config = @ + 1]
    /\ currentConfigType' = IF currentConfigType = "service" THEN "revenue-code"
                            ELSE "service"
    /\ returns' = {}
    /\ stats' = NoLoads
    /\ UNCHANGED <<hospitals, cfg, jsonCache, parseCount, payerValue, payerOptions,
                   status, currentHospitalList, currentHitsById, go, geo, qry, ld, fmt, alt>>

(***************************************************************************)
(* Runs of the pure parts: the radius filter and the query of loaded       *)
(* records, each applied once to inputs drawn from bounded sets.           *)
(***************************************************************************)
geoFilter ==
    /\ geo.pc = "in"
    /\ geo' = [geo EXCEPT !.pc = "out",
                          !.nearby = filterNearby(geo.hospitals, geo.center, geo.miles)]
    /\ UNCHANGED <<appVars, qry, ld, fmt, alt>>

loadRun ==
    /\ ld.pc = "in"
    /\ ld' = [ld EXCEPT !.pc = "out",
                        !.out = loadWhole(ld.cache, ld.jsonPath, ld.lines, ld.ok)]
    /\ UNCHANGED <<appVars, geo, qry, fmt, alt>>

fmtRun ==
    /\ fmt.pc = "in"
    /\ fmt' = [fmt EXCEPT !.pc = "out",
                          !.out = [amountOf |-> amountOf(fmt.record),
                                   price |-> formatPrice(fmt.amount, fmt.code).price,
                                   ratio |-> formatPrice(fmt.amount, fmt.code).ratio]]
    /\ UNCHANGED <<appVars, geo, qry, ld, alt>>

queryRun ==
    /\ qry.pc = "in"
    /\ qry' = [qry EXCEPT !.pc = "out",
                          !.hits = queryLoaded(qry.jsonData, qry.regexOrCode,
                                               qry.selectedPayer, qry.configType)]
    /\ UNCHANGED <<appVars, geo, ld, fmt, alt>>

altRun ==
    /\ alt.pc = "in"
    /\ alt' = [alt EXCEPT !.pc = "out",
                          !.hits = IF alt.variant = "parquet"
                                   THEN queryHospitalParquet(alt.rows, alt.regexOrCode,
                                                             alt.ok, alt.decodes)
                                   ELSE queryHospitalCSV(alt.rows, alt.regexOrCode, alt.ok)]
    /\ UNCHANGED <<appVars, geo, qry, ld, fmt>>

(***************************************************************************)
(* Initial states and specifications.                                      *)
(***************************************************************************)
SeqsUpTo(S, n) == UNION {[1..m -> S] : m \in 0..n}

IdleGeo == [pc |-> "idle", hospitals |-> <<>>, center |-> <<NaN, NaN>>, miles |-> 0,
            nearby |-> <<>>]
IdleQry == [pc |-> "idle", jsonData |-> <<>>, regexOrCode |-> "", selectedPayer |-> "",
            configType |-> "service", hits |-> <<>>]
IdleLd == [pc |-> "idle", cache |-> EmptyMap, jsonPath |-> "", lines |-> <<>>, ok |-> TRUE,
           out |-> [data |-> <<>>, cache |-> EmptyMap, fetches |-> 0]]
IdleFmt == [pc |-> "idle", record |-> rNone, amount |-> NaN, code |-> "",
            out |-> [amountOf |-> 0, price |-> <<>>, ratio |-> <<>>]]
IdleAlt == [pc |-> "idle", variant |-> "parquet", rows |-> <<>>, regexOrCode |-> "",
            ok |-> TRUE, decodes |-> TRUE, hits |-> <<>>]

\* the state after initializeApp, with the hospital table t
InitApp(t, c) ==
    /\ hospitals = t
    /\ cfg = c
    /\ uiEvents = [go |-> 0, config |-> 0, rawZip |-> "", slot |-> 0]
    /\ jsonCache = EmptyMap
    /\ stats = NoLoads
    /\ parseCount = [p \in Paths |-> 0]
    /\ returns = {}
    /\ currentConfigType = "service"
    /\ payerValue = ""
    /\ payerOptions = <<>>
    /\ status = "ready"
    /\ currentHospitalList = <<>>
    /\ currentHitsById = EmptyMap
    /\ go = [g \in 1..c.slots |-> IdleGo]

NoInputs ==
    [slots |-> 1, pool |-> pool, maxSearches |-> 0, maxConfigChanges |-> 0, zips |-> {}, miles |-> {},
     services |-> {}, qs |-> {}, pickPayer |-> FALSE]

\* hospital k of a table sits at the ZIP 27710 centroid when k is odd and one
\* degree (69 miles) north of it when k is even
TableOf(paths) ==
    [k \in DOMAIN paths |-> Hospital(k, Num(IF k % 2 = 1 THEN 36 ELSE 37), paths[k])]

MainInputs ==
    [slots |-> 1, pool |-> pool, maxSearches |-> MaxSearches, maxConfigChanges |-> 1,
     zips |-> {"27710", "99999"}, miles |-> {ShowAllMiles},
     services |-> {"", "MRI scan", "custom"}, qs |-> {BadPattern},
     pickPayer |-> TRUE]
MainTables == {TableOf(ps) : ps \in SeqsUpTo(Paths \cup {""}, MaxHospitals)}

\* searches with ZIP inputs that need padding, are unknown or are empty, over
\* an empty and a one-hospital table
PreInputs ==
    [slots |-> 1, pool |-> pool, maxSearches |-> MaxSearches, maxConfigChanges |-> 1,
     zips |-> {"27710", "501", "127710", "99999", ""}, miles |-> {25},
     services |-> {"MRI scan", ""}, qs |-> {},
     pickPayer |-> FALSE]
PreTables == {<<>>, TableOf(<<"a.json">>)}

\* searches with pools of 1..MaxPoolSize workers
DetInputs ==
    {[slots |-> 1, pool |-> n, maxSearches |-> MaxSearches, maxConfigChanges |-> 1,
      zips |-> {"27710"}, miles |-> {ShowAllMiles},
      services |-> {"MRI scan", "Radiology"}, qs |-> {},
      pickPayer |-> TRUE] : n \in 1..MaxPoolSize}

\* two invocations of go() that may overlap: nothing in go() keeps a second
\* click from starting a search while the first one is awaiting its loads
TwoInputs ==
    [slots |-> 2, pool |-> pool, maxSearches |-> MaxSearches, maxConfigChanges |-> 1,
     zips |-> {"27710"}, miles |-> {ShowAllMiles},
     services |-> {"MRI scan"}, qs |-> {},
     pickPayer |-> FALSE]
TwoTables == {TableOf(<<"a.json">>), TableOf(<<"a.json", "">>)}

\* searches by a pool of two workers over more hospitals than workers, one
\* of them without a chargemaster
LiveInputs ==
    [slots |-> 1, pool |-> 2, maxSearches |-> MaxSearches, maxConfigChanges |-> 1,
     zips |-> {"27710"}, miles |-> {ShowAllMiles},
     services |-> {"MRI scan"}, qs |-> {},
     pickPayer |-> FALSE]
LiveTables ==
    {TableOf(<<"a.json", "", "a.json", "a.json">>)}

\* searches with a custom pattern that does not compile, or with no pattern
BadInputs ==
    [slots |-> 1, pool |-> 2, maxSearches |-> MaxSearches, maxConfigChanges |-> 1,
     zips |-> {"27710"}, miles |-> {ShowAllMiles},
     services |-> {"custom"}, qs |-> {BadPattern},
     pickPayer |-> FALSE]

\* searches for a revenue code, with changes of $configType before and
\* during a search
ModeInputs ==
    [slots |-> 1, pool |-> pool, maxSearches |-> MaxSearches, maxConfigChanges |-> 2,
     zips |-> {"27710"}, miles |-> {ShowAllMiles},
     services |-> {"Radiology"}, qs |-> {},
     pickPayer |-> FALSE]
ModeTables == {TableOf(<<"a.json">>), TableOf(<<"a.json", "a.json">>)}

\* searches with a payer picked from the dropdown and with two radii, over a
\* near hospital whose file has one payer and a far one whose file has two
PayerInputs ==
    [slots |-> 1, pool |-> pool, maxSearches |-> MaxSearches + 1, maxConfigChanges |-> 1,
     zips |-> {"27710"}, miles |-> {25, ShowAllMiles},
     services |-> {"MRI scan"}, qs |-> {},
     pickPayer |-> TRUE]
PayerTables == {TableOf(<<"b.json", "a.json">>)}

PoolInputs ==
    [slots |-> 1, pool |-> pool, maxSearches |-> MaxSearches, maxConfigChanges |-> 1,
     zips |-> {"27710", "99999"}, miles |-> {500},
     services |-> {"MRI scan"}, qs |-> {},
     pickPayer |-> FALSE]
PoolTables ==
    {TableOf([k \in 1..n |-> "a.json"]) : n \in 0..MaxPoolHospitals}
    \cup {TableOf([k \in 1..n |-> IF k % 3 = 2 THEN "" ELSE IF k % 3 = 0 THEN "b.json"
                                   ELSE "a.json"]) : n \in 0..MaxPoolHospitals}

GeoCoords == {<<Num(36), Num(LonDeg)>>, <<Num(37), Num(LonDeg)>>, <<Num(44), Num(LonDeg)>>,
              <<NaN, Num(LonDeg)>>, <<Num(36), NaN>>}
GeoTables ==
    {[k \in DOMAIN cs |-> [id |-> k, lat |-> cs[k][1], lon |-> cs[k][2], json_path |-> ""]] :
        cs \in SeqsUpTo(GeoCoords, MaxGeoLen)}
GeoMiles == {0, 25, 69, 70, 499, 500, 600}

LinePool == {Line(rMRI), Line(rXray), BadLine, NullLine, ScalarLine}
LoadCaches == {EmptyMap, MapSet(EmptyMap, "a.json", <<rCheap>>)}

PriceFields == <<"estimated_amount", "standard_charge_dollar", "standard_charge_gross",
                 "standard_charge_min", "standard_charge_max">>
\* a record whose price fields are each absent (NaN), zero or a number of
\* their own (v[k] = Num(1))
FmtRecord(v) ==
    [rNone EXCEPT !.estimated_amount = IF v[1] = Num(1) THEN Num(10) ELSE v[1],
                  !.standard_charge_dollar = IF v[2] = Num(1) THEN Num(20) ELSE v[2],
                  !.standard_charge_gross = IF v[3] = Num(1) THEN Num(-30) ELSE v[3],
                  !.standard_charge_min = IF v[4] = Num(1) THEN Num(40) ELSE v[4],
                  !.standard_charge_max = IF v[5] = Num(1) THEN Num(50) ELSE v[5]]
FmtAmounts == {NaN, Num(0), Num(250), Num(1), Num(-100)}
FmtCodes == {"", "70551", "72148", "71046", "0610", "99999"}

QueryData ==
    SeqsUpTo(RecordPool, MaxRecs)
    \cup {BigData, <<rXray, rCheap>> \o BigData, parseLines(files["a.json"])}
\* rows of the alternative file formats
ArrowRow(desc, est) ==
    [description |-> desc, code_1 |-> "70551", estimated_amount |-> est,
     standard_charge_min |-> NaN, standard_charge_max |-> Num(900)]
CsvRow(desc, est) ==
    [description |-> desc, code_1 |-> Cell("70551"), estimated_amount |-> est,
     standard_charge_min |-> Absent, standard_charge_max |-> Cell("900")]
ArrowPool == {ArrowRow("MRI BRAIN", Num(300)), ArrowRow("mri spine", NaN),
              ArrowRow("XRAY CHEST", Num(100)), ArrowRow("MRI BRAIN", Num(100)),
              ArrowRow("", Num(40))}
CsvPool == {CsvRow("MRI BRAIN", Cell("300")), CsvRow("mri spine", Absent),
            CsvRow("XRAY CHEST", Cell("100")), CsvRow("MRI BRAIN", Cell("100")),
            CsvRow("mri spine", Cell("n/a")), CsvRow("MRI BRAIN", Cell(""))}
\* more matching rows than the cap, the cheapest ones last
BigArrow == [k \in 1..BigLen |-> ArrowRow("MRI BRAIN", Num(BigLen + 1 - k))]
BigCsv ==
    [k \in 1..BigLen |-> CsvRow("MRI BRAIN", IF k = BigLen THEN Cell("40") ELSE Cell("100"))]
AltTables ==
    [parquet |-> SeqsUpTo(ArrowPool, MaxRecs)
                 \cup {BigArrow, <<ArrowRow("XRAY CHEST", Num(100))>> \o BigArrow},
     csv |-> SeqsUpTo(CsvPool, MaxRecs)
             \cup {BigCsv, <<CsvRow("XRAY CHEST", Cell("100"))>> \o BigCsv}]
AltPatterns == {"", "MRI", BadPattern}

QueryPatterns == DOMAIN RegexMatches \cup {BadPattern}
QueryPayers == {"", "Aetna", "Cigna"}

Init ==
    /\ \E t \in MainTables : InitApp(t, MainInputs)
    /\ geo = IdleGeo
    /\ qry = IdleQry
    /\ ld = IdleLd
    /\ fmt = IdleFmt
    /\ alt = IdleAlt

InitPool ==
    /\ \E t \in PoolTables : InitApp(t, PoolInputs)
    /\ geo = IdleGeo
    /\ qry = IdleQry
    /\ ld = IdleLd
    /\ fmt = IdleFmt
    /\ alt = IdleAlt

InitDet ==
    /\ \E t \in MainTables : \E c \in DetInputs : InitApp(t, c)
    /\ geo = IdleGeo
    /\ qry = IdleQry
    /\ ld = IdleLd
    /\ fmt = IdleFmt
    /\ alt = IdleAlt

InitTwo ==
    /\ \E t \in TwoTables : InitApp(t, TwoInputs)
    /\ geo = IdleGeo
    /\ qry = IdleQry
    /\ ld = IdleLd
    /\ fmt = IdleFmt
    /\ alt = IdleAlt

InitLive ==
    /\ \E t \in LiveTables : InitApp(t, LiveInputs)
    /\ geo = IdleGeo
    /\ qry = IdleQry
    /\ ld = IdleLd
    /\ fmt = IdleFmt
    /\ alt = IdleAlt

InitBad ==
    /\ \E t \in LiveTables : InitApp(t, BadInputs)
    /\ geo = IdleGeo
    /\ qry = IdleQry
    /\ ld = IdleLd
    /\ fmt = IdleFmt
    /\ alt = IdleAlt

InitMode ==
    /\ \E t \in ModeTables : InitApp(t, ModeInputs)
    /\ geo = IdleGeo
    /\ qry = IdleQry
    /\ ld = IdleLd
    /\ fmt = IdleFmt
    /\ alt = IdleAlt

InitPayer ==
    /\ \E t \in PayerTables : InitApp(t, PayerInputs)
    /\ geo = IdleGeo
    /\ qry = IdleQry
    /\ ld = IdleLd
    /\ fmt = IdleFmt
    /\ alt = IdleAlt

InitPre ==
    /\ \E t \in PreTables : InitApp(t, PreInputs)
    /\ geo = IdleGeo
    /\ qry = IdleQry
    /\ ld = IdleLd
    /\ fmt = IdleFmt
    /\ alt = IdleAlt

InitGeo ==
    /\ InitApp(<<>>, NoInputs)
    /\ geo \in {[pc |-> "in", hospitals |-> t,
                 center |-> <<Num(ZIP[z][2]), Num(ZIP[z][1])>>, miles |-> m,
                 nearby |-> <<>>] : t \in GeoTables, z \in DOMAIN ZIP, m \in GeoMiles}
    /\ qry = IdleQry
    /\ ld = IdleLd
    /\ fmt = IdleFmt
    /\ alt = IdleAlt

InitLoad ==
    /\ InitApp(<<>>, NoInputs)
    /\ geo = IdleGeo
    /\ qry = IdleQry
    /\ fmt = IdleFmt
    /\ alt = IdleAlt
    /\ ld \in {[pc |-> "in", cache |-> c, jsonPath |-> p, lines |-> l, ok |-> o,
                out |-> IdleLd.out] :
                   c \in LoadCaches, p \in {"", "a.json", "b.json"},
                   l \in SeqsUpTo(LinePool, MaxLines), o \in BOOLEAN}

InitFmt ==
    /\ InitApp(<<>>, NoInputs)
    /\ geo = IdleGeo
    /\ qry = IdleQry
    /\ ld = IdleLd
    /\ fmt \in {[pc |-> "in", record |-> FmtRecord(v), amount |-> a, code |-> c,
                 out |-> IdleFmt.out] :
                    v \in [1..5 -> {NaN, Num(0), Num(1)}], a \in FmtAmounts, c \in FmtCodes}
    /\ alt = IdleAlt

InitAlt ==
    /\ InitApp(<<>>, NoInputs)
    /\ geo = IdleGeo
    /\ qry = IdleQry
    /\ ld = IdleLd
    /\ fmt = IdleFmt
    /\ alt \in {[pc |-> "in", variant |-> v, rows |-> t, regexOrCode |-> p, ok |-> o,
                 decodes |-> d, hits |-> <<>>] :
                    v \in {"parquet"}, t \in AltTables.parquet, p \in AltPatterns,
                    o \in BOOLEAN, d \in BOOLEAN}
               \cup
               {[pc |-> "in", variant |-> v, rows |-> t, regexOrCode |-> p, ok |-> o,
                 decodes |-> TRUE, hits |-> <<>>] :
                    v \in {"csv"}, t \in AltTables.csv, p \in AltPatterns, o \in BOOLEAN}

InitQuery ==
    /\ InitApp(<<>>, NoInputs)
    /\ geo = IdleGeo
    /\ ld = IdleLd
    /\ fmt = IdleFmt
    /\ alt = IdleAlt
    /\ qry \in {[pc |-> "in", jsonData |-> d, regexOrCode |-> p, selectedPayer |-> s,
                 configType |-> c, hits |-> <<>>] :
                    d \in QueryData, p \in QueryPatterns, s \in QueryPayers,
                    c \in {"service", "revenue-code"}}

Next ==
    \/ \E g \in Slots, rawZip \in cfg.zips, miles \in cfg.miles, svcName \in cfg.services,
          q \in cfg.qs \cup {""},
          payerSel \in {payerValue} \cup
                       (IF cfg.pickPayer THEN Range(payerOptions) \cup {""} ELSE {}) :
          goStart(g, rawZip, miles, svcName, q, payerSel)
    \/ \E g \in Slots, k \in 1..MaxPoolHospitals + 1 : payerResume(g, k)
    \/ \E g \in Slots, k \in 1..MaxPoolHospitals + 1, ok \in BOOLEAN :
          payerFetchSettle(g, k, ok)
    \/ \E g \in Slots : goAfterPayers(g)
    \/ \E g \in Slots, w \in 1..MaxPoolHospitals + 1 : workerResume(g, w)
    \/ \E g \in Slots, w \in 1..MaxPoolHospitals + 1, ok \in BOOLEAN :
          workerFetchSettle(g, w, ok)
    \/ \E g \in Slots : goFinish(g)
    \/ handleConfigTypeChange

\* searches in which every fetch of a worker succeeds (a fetch of the payer
\* phase may fail, which leaves the file for the workers to fetch) and the
\* configuration mode is only changed between searches
NextDet ==
    \/ \E g \in Slots, rawZip \in cfg.zips, miles \in cfg.miles, svcName \in cfg.services,
          payerSel \in {payerValue} \cup Range(payerOptions) \cup {""} :
          goStart(g, rawZip, miles, svcName, "", payerSel)
    \/ \E g \in Slots, k \in 1..MaxPoolHospitals + 1 : payerResume(g, k)
    \/ \E g \in Slots, k \in 1..MaxPoolHospitals + 1, ok \in BOOLEAN :
          payerFetchSettle(g, k, ok)
    \/ \E g \in Slots : goAfterPayers(g)
    \/ \E g \in Slots, w \in 1..MaxPoolHospitals + 1 : workerResume(g, w)
    \/ \E g \in Slots, w \in 1..MaxPoolHospitals + 1 : workerFetchSettle(g, w, TRUE)
    \/ \E g \in Slots : goFinish(g)
    \/ (\A g \in Slots : go[g].pc \in {"idle", "done"}) /\ handleConfigTypeChange

\* the continuations the event loop runs once their promise is settled
Continue ==
    \/ \E g \in Slots, k \in 1..MaxPoolHospitals + 1 : payerResume(g, k)
    \/ \E g \in Slots : goAfterPayers(g)
    \/ \E g \in Slots, w \in 1..MaxPoolHospitals + 1 : workerResume(g, w)
    \/ \E g \in Slots : goFinish(g)

\* a fetch resolves or errors
Settle ==
    \/ \E g \in Slots, k \in 1..MaxPoolHospitals + 1, ok \in BOOLEAN :
          payerFetchSettle(g, k, ok)
    \/ \E g \in Slots, w \in 1..MaxPoolHospitals + 1, ok \in BOOLEAN :
          workerFetchSettle(g, w, ok)

NextGeo == geoFilter
NextQuery == queryRun
NextAlt == altRun
NextLoad == loadRun
NextFmt == fmtRun

Spec == Init /\ [][Next]_vars
SpecPool == InitPool /\ [][Next]_vars
SpecDet == InitDet /\ [][NextDet]_vars
SpecTwo == InitTwo /\ [][Next]_vars
\* the event loop runs every continuation that is ready, and every fetch
\* settles in the end
SpecLive == InitLive /\ [][Next]_vars /\ WF_vars(Continue) /\ WF_vars(Settle)
SpecBad == InitBad /\ [][Next]_vars /\ WF_vars(Continue) /\ WF_vars(Settle)
SpecMode == InitMode /\ [][Next]_vars
SpecPayer == InitPayer /\ [][Next]_vars
SpecPre == InitPre /\ [][Next]_vars
SpecGeo == InitGeo /\ [][NextGeo]_vars
SpecQuery == InitQuery /\ [][NextQuery]_vars
SpecAlt == InitAlt /\ [][NextAlt]_vars
SpecLoad == InitLoad /\ [][NextLoad]_vars
SpecFmt == InitFmt /\ [][NextFmt]_vars

TypeOK ==
    /\ \A g \in Slots : go[g].pc \in {"idle", "payers", "pool", "done"}
    /\ \A p \in DOMAIN jsonCache : p \in Paths

(***************************************************************************)
(* Properties.                                                             *)
(***************************************************************************)
HitsOrdered(hits, key(_)) ==
    \A j \in 1..Len(hits) - 1 : key(hits[j]) <= key(hits[j + 1])
IdsOf(hs) == {hs[k].id : k \in DOMAIN hs}
AllHitLists ==
    {currentHitsById[id] : id \in DOMAIN currentHitsById}
    \cup UNION {{go[g].hitsById[id] : id \in DOMAIN go[g].hitsById} : g \in Slots}

Thm_C2 ==
    [][/\ \A p \in DOMAIN jsonCache :
             /\ p \in DOMAIN jsonCache'
             /\ jsonCache'[p] = jsonCache[p]
             /\ stats'[p].fetches = 0
       /\ \A r \in returns' :
             r.via = "cache" =>
                 /\ r.path \in DOMAIN jsonCache'
                 /\ r.data = jsonCache'[r.path]
                 /\ r.data = parseLines(files[r.path])]_vars
Wit_C2 ==
    \E r \in returns :
        /\ r.via = "cache"
        /\ r.data # <<>>
        /\ stats[r.path].calls >= 1
        /\ stats[r.path].fetches = 0
        /\ uiEvents.go = 2

\* C3 as stated: after a path's entry was stored, the path is not parsed again.
Cex_C3 ==
    [][\A p \in DOMAIN jsonCache : parseCount'[p] = parseCount[p]]_vars
\* C3 as amended: after a path's entry was stored no new fetch of it becomes
\* outstanding, and every further parse of it completes a fetch that was
\* already outstanding (a load that overlapped the one that stored the entry).
Thm_C3 ==
    [][\A p \in DOMAIN jsonCache :
          /\ InFlight(p)' <= InFlight(p)
          /\ parseCount'[p] - parseCount[p] <= InFlight(p) - InFlight(p)']_vars
Wit_C3 ==
    \E p \in DOMAIN jsonCache : parseCount[p] >= 2

\* C4 as stated: a load whose fetch failed returns [] and leaves jsonCache
\* without an entry for the path.
Cex_C4 ==
    [][\A r \in returns' :
          r.via = "error" => r.data = <<>> /\ r.path \notin DOMAIN jsonCache']_vars
\* C4 as amended: a load whose fetch failed returns [] and leaves jsonCache
\* unchanged (it stores no entry; an entry stored by an overlapping load of the
\* path stays), an entry is never the result of a failed fetch, and while the
\* path has no entry every load called for it issues a fetch.
Thm_C4 ==
    [][/\ \A r \in returns' :
             r.via = "error" => r.data = <<>> /\ jsonCache' = jsonCache
       /\ \A p \in Paths :
             /\ p \in DOMAIN jsonCache' => parseCount'[p] >= 1
             /\ p \notin DOMAIN jsonCache' => stats'[p].fetches = stats'[p].calls]_vars
Wit_C4 ==
    \E g \in Slots :
        /\ go[g].pc = "pool"
        /\ Len(go[g].nearby) = 1
        /\ WorkerFetches(g) # {}
        /\ go[g].tasks[1].st = "done"
        /\ uiEvents.go = 1
        /\ stats[go[g].nearby[1].json_path].fetches = 1
        /\ jsonCache = EmptyMap

Thm_C6 ==
    \A hits \in AllHitLists : Len(hits) <= 50
Wit_C6 ==
    \E g \in Slots : \E id \in DOMAIN go[g].hitsById :
        /\ Len(go[g].hitsById[id]) = 50
        /\ \E k \in DOMAIN go[g].nearby :
              go[g].nearby[k].id = id /\ go[g].nearby[k].json_path = "b.json"
        /\ Len(parseLines(files["b.json"])) > 50

\* C7 as stated: every hit list is non-decreasing by the effective amount
\* (amountOf).
Cex_C7 ==
    \A hits \in AllHitLists : HitsOrdered(hits, amountOf)
\* C7 as amended: every hit list is non-decreasing by the estimated amount, a
\* missing or zero estimated amount counting as 0 whatever the other price
\* fields hold.
EstimatedOrZero(r) == IF r.estimated_amount = NaN THEN 0 ELSE r.estimated_amount[1]
Thm_C7 ==
    \A hits \in AllHitLists : HitsOrdered(hits, EstimatedOrZero)
Wit_C7 ==
    \E id \in DOMAIN currentHitsById :
        /\ currentHitsById[id] = <<rSpine, rCheap, rMRI>>
        /\ ~HitsOrdered(currentHitsById[id], amountOf)

Thm_C9 ==
    \A g \in Slots :
        go[g].pc = "done" =>
            /\ \A w \in DOMAIN go[g].workers : go[g].workers[w].st = "done"
            /\ go[g].i = Len(go[g].nearby)
            /\ currentHospitalList = go[g].nearby
            /\ \A k \in DOMAIN go[g].nearby : go[g].nearby[k].id \in DOMAIN currentHitsById
Wit_C9 ==
    \E g \in Slots :
        /\ go[g].pc = "done"
        /\ Len(go[g].nearby) = 3
        /\ parseCount["a.json"] >= 2
        /\ \E id \in DOMAIN currentHitsById : currentHitsById[id] # <<>>

\* C10: the workers of one search never have more than 4 fetches outstanding.
Thm_C10 ==
    \A g \in Slots : Cardinality(WorkerFetches(g)) <= 4
Wit_C10 ==
    \E g \in Slots :
        /\ Cardinality(WorkerFetches(g)) = 4
        /\ Len(go[g].nearby) > 4
        /\ go[g].i = 4

\* C11: when a worker gets the result of its hospital's load, the hit list it
\* stores for that hospital is empty if the load failed and is otherwise the
\* query of that hospital's own file; the search stays in its pool phase (it
\* is not aborted) and the hit list of every other hospital is left as it was.
Thm_C11 ==
    [][\A g \in Slots : \A w \in DOMAIN go[g].workers :
          (/\ go[g].pc = "pool"
           /\ go[g].workers[w].st \in {"fetching", "cached"}
           /\ go'[g].workers[w] # go[g].workers[w]) =>
              LET G == go[g]
                  h == G.nearby[G.workers[w].h]
                  failed == /\ G.workers[w].st = "fetching"
                            /\ \E r \in returns' : r.via = "error" /\ r.path = h.json_path
                  own == IF failed THEN <<>>
                         ELSE queryLoaded(parseLines(files[h.json_path]), G.searchPattern,
                                          G.selectedPayer, currentConfigType)
              IN /\ go'[g].pc = "pool"
                 /\ h.id \in DOMAIN go'[g].hitsById
                 /\ go'[g].hitsById[h.id] = own
                 /\ \A id \in DOMAIN G.hitsById \ {h.id} :
                        /\ id \in DOMAIN go'[g].hitsById
                        /\ go'[g].hitsById[id] = G.hitsById[id]]_vars
Wit_C11 ==
    \E g \in Slots :
        /\ go[g].pc = "done"
        /\ Len(go[g].nearby) = 2
        /\ \A k \in 1..2 : go[g].nearby[k].json_path = "a.json"
        /\ go[g].searchPattern = "MRI"
        /\ go[g].selectedPayer = ""
        /\ currentHitsById[go[g].nearby[1].id] = <<>>
        /\ currentHitsById[go[g].nearby[2].id] =
              queryLoaded(parseLines(files["a.json"]), "MRI", "", "service")
        /\ currentHitsById[go[g].nearby[2].id] # <<>>

\* C12: a search whose zero-padded five-character ZIP is not in the ZIP table,
\* or that runs while the hospital table is empty, sets a status message,
\* issues no load and no fetch, and leaves the cache, the payer list and the
\* rendered results unchanged.
Thm_C12 ==
    [][(/\ uiEvents'.go # uiEvents.go
        /\ \/ padZip(uiEvents'.rawZip) \notin DOMAIN ZIP
           \/ Len(hospitals) = 0) =>
            /\ status' \in {"zip-not-found", "no-hospitals"}
            /\ stats' = NoLoads
            /\ \A p \in Paths : InFlight(p)' = InFlight(p)
            /\ go' = go
            /\ jsonCache' = jsonCache
            /\ payerOptions' = payerOptions
            /\ currentHospitalList' = currentHospitalList
            /\ currentHitsById' = currentHitsById]_vars
Wit_C12 ==
    /\ status = "zip-not-found"
    /\ uiEvents.rawZip = "99999"
    /\ uiEvents.go = 2
    /\ currentHospitalList # <<>>
    /\ \E id \in DOMAIN currentHitsById : currentHitsById[id] # <<>>
    /\ payerOptions # <<>>
    /\ jsonCache # EmptyMap

\* C13 as stated: a search whose custom pattern does not compile issues no
\* chargemaster fetch (neither for the payer list nor from a worker) and does
\* not end as a completed search.
Cex_C13 ==
    \A g \in Slots :
        (/\ go[g].pc \in {"payers", "pool", "done"}
         /\ go[g].searchPattern # ""
         /\ ~RegexCompiles(go[g].searchPattern)) =>
            /\ \A k \in DOMAIN go[g].tasks : go[g].tasks[k].st # "fetching"
            /\ WorkerFetches(g) = {}
            /\ ~(go[g].pc = "done" /\ status = "done")

\* C14: in the pool of a search, a hospital without a chargemaster path, and
\* every hospital when the search pattern is empty, has no worker loading for
\* it and gets the empty hit list; and loadHospitalJSON called with the empty
\* path returns the empty sequence, issues no fetch and leaves the cache as it
\* is, whatever the cache holds.
Thm_C14 ==
    /\ \A g \in Slots : \A k \in DOMAIN go[g].nearby :
          (/\ go[g].pc \in {"pool", "done"}
           /\ go[g].nearby[k].json_path = "" \/ go[g].searchPattern = "") =>
              /\ \A w \in DOMAIN go[g].workers :
                     go[g].workers[w].st # "done" => go[g].workers[w].h # k
              /\ go[g].nearby[k].id \in DOMAIN go[g].hitsById =>
                     go[g].hitsById[go[g].nearby[k].id] = <<>>
              /\ go[g].pc = "done" => go[g].nearby[k].id \in DOMAIN go[g].hitsById
    /\ \A ok \in BOOLEAN : \A p \in Paths :
          loadWhole(jsonCache, "", files[p], ok)
              = [data |-> <<>>, cache |-> jsonCache, fetches |-> 0]
Wit_C14 ==
    \E g \in Slots :
        /\ go[g].pc = "done"
        /\ go[g].searchPattern = "MRI"
        /\ jsonCache # EmptyMap
        /\ \E k \in DOMAIN go[g].nearby :
              /\ go[g].nearby[k].json_path = ""
              /\ go[g].hitsById[go[g].nearby[k].id] = <<>>
        /\ \E k \in DOMAIN go[g].nearby :
              /\ go[g].nearby[k].json_path # ""
              /\ go[g].hitsById[go[g].nearby[k].id] # <<>>

\* C15 as stated: among the records that match the pattern, the hits are
\* exactly those the payer filter accepts, and the filter accepts a record iff
\* no payer is selected or the record's payer_name, trimmed, equals the
\* selected payer.
Cex_C15 ==
    (qry.pc = "out" /\ RegexCompiles(qry.regexOrCode) /\ Len(qry.jsonData) < HitCap) =>
        \A j \in DOMAIN qry.jsonData :
            LET r == qry.jsonData[j]
                matchesRegex ==
                    \/ RegexTest(qry.regexOrCode, r.description)
                    \/ RegexTest(qry.regexOrCode, r[getSearchCodeField(qry.configType)])
                accepted == \/ qry.selectedPayer = ""
                            \/ trim(r.payer_name) = qry.selectedPayer
            IN matchesRegex => (r \in Range(qry.hits) <=> accepted)

\* data is the values of the lines of `lines` whose kind is in K, in file order
IsSelection(data, lines, K) ==
    LET picks == {k \in DOMAIN lines : lines[k].kind \in K}
    IN /\ Len(data) = Cardinality(picks)
       /\ \A k \in picks : data[Cardinality({m \in picks : m <= k})] = lines[k].value

\* C16 as stated: a load whose fetch succeeded returns exactly the records of
\* the lines that are objects, in file order, and stores that sequence.
Cex_C16 ==
    (ld.pc = "out" /\ ld.out.fetches = 1 /\ ld.ok) =>
        /\ IsSelection(ld.out.data, ld.lines, {"object"})
        /\ ld.jsonPath \in DOMAIN ld.out.cache
        /\ ld.out.cache[ld.jsonPath] = ld.out.data
\* C16 as amended: a load whose fetch succeeded returns, in file order, the
\* value of every line that JSON.parse accepts and that is not null (objects,
\* and also values that are not objects), drops the lines JSON.parse throws on
\* and the null lines, and stores that same sequence in the cache.
Thm_C16 ==
    (ld.pc = "out" /\ ld.out.fetches = 1 /\ ld.ok) =>
        /\ IsSelection(ld.out.data, ld.lines, {"object", "scalar"})
        /\ ld.jsonPath \in DOMAIN ld.out.cache
        /\ ld.out.cache[ld.jsonPath] = ld.out.data
Wit_C16 ==
    /\ ld.pc = "out"
    /\ ld.out.fetches = 1
    /\ ld.ok
    /\ Len(ld.lines) = 4
    /\ ld.lines[2] = BadLine
    /\ \A k \in {1, 3, 4} : ld.lines[k].kind = "object"
    /\ ld.out.data = <<ld.lines[1].value, ld.lines[3].value, ld.lines[4].value>>
    /\ ld.out.cache[ld.jsonPath] = ld.out.data

\* C17: the payer list go() receives from getUniquePayers holds exactly the
\* trimmed, non-blank payer names of all records of the candidate hospitals'
\* files that were loaded (the path is in the cache when the tasks are done:
\* it was cached before or a fetch of it succeeded), each name once, in
\* ascending order; the pattern, the selected payer and the configuration
\* mode do not enter.
Thm_C17 ==
    [][\A g \in Slots :
          (go[g].pc = "payers" /\ go'[g].pc = "pool") =>
              LET loaded == {go[g].nearby[k].json_path : k \in DOMAIN go[g].nearby}
                                \cap DOMAIN jsonCache
                  names(p) == {trim(r.payer_name) :
                                  r \in {x \in Range(parseLines(files[p])) :
                                            x.payer_name # "" /\ trim(x.payer_name) # ""}}
                  want == UNION {names(p) : p \in loaded}
              IN /\ Range(payerOptions') = want
                 /\ \A j \in 1..Len(payerOptions') - 1 :
                        StrRank[payerOptions'[j]] < StrRank[payerOptions'[j + 1]]]_vars
Wit_C17 ==
    \E g \in Slots :
        /\ go[g].pc = "pool"
        /\ status = "querying"
        /\ payerOptions = <<"Aetna", "Cigna">>
        /\ go[g].searchPattern = ""
        /\ Len(go[g].nearby) = 2
        /\ go[g].nearby[1].json_path = "b.json"
        /\ go[g].nearby[2].json_path = "a.json"
        /\ DOMAIN jsonCache = {"a.json"}

\* C18: amountOf returns the value of the first of estimated_amount,
\* standard_charge_dollar, standard_charge_gross, standard_charge_min,
\* standard_charge_max that is a non-zero number, and 0 when none is; a field
\* that is present and zero is passed over like an absent one.
Thm_C18 ==
    fmt.pc = "out" =>
        LET r == fmt.record
            nonZero == {k \in 1..5 : r[PriceFields[k]] # NaN /\ r[PriceFields[k]][1] # 0}
        IN IF nonZero = {} THEN fmt.out.amountOf = 0
           ELSE \E k \in nonZero :
                   /\ \A m \in nonZero : k <= m
                   /\ fmt.out.amountOf = r[PriceFields[k]][1]
Wit_C18 ==
    /\ fmt.pc = "out"
    /\ fmt.record.estimated_amount = Num(0)
    /\ fmt.record.standard_charge_dollar = NaN
    /\ fmt.record.standard_charge_gross = Num(-30)
    /\ fmt.record.standard_charge_min = Num(40)
    /\ fmt.out.amountOf = -30

\* the code has a strictly positive rate in the Medicare table
HasRate(code) == code # "" /\ code \in DOMAIN cmsRate /\ cmsRate[code] > 0
\* the two-decimal multiplier string of amount / rate: the sign, the whole
\* part, two decimals and the suffix x, at most half a hundredth off
IsMultiplier(ratio, amount, rate) ==
    /\ Len(ratio) = 4
    /\ ratio[4] = "x"
    /\ ratio[3] \in 0..99
    /\ ratio[2] >= 0
    /\ ratio[1] = (IF amount < 0 THEN "-" ELSE "")
    /\ LET hundredths == 100 * ratio[2] + ratio[3]
       IN /\ 2 * rate * hundredths <= 2 * 100 * Abs(amount) + rate
          /\ 2 * rate * hundredths > 2 * 100 * Abs(amount) - rate

Thm_C20 ==
    (fmt.pc = "out" /\ (fmt.amount = NaN \/ fmt.amount[1] = 0)) =>
        fmt.out.price = <<"N/A">> /\ fmt.out.ratio = <<"N/A">>
Wit_C20 ==
    /\ fmt.pc = "out"
    /\ fmt.amount = Num(0)
    /\ HasRate(fmt.code)
    /\ fmt.out.price = <<"N/A">>
    /\ fmt.out.ratio = <<"N/A">>

\* C21: when every fetch of the workers succeeds and the inputs of a search
\* are fixed, the hit map handed to renderHospitals is a function of the
\* inputs alone: for each
\* candidate hospital it holds the query of that hospital's own file (the
\* empty list without a path or a pattern), whatever the pool size, the order
\* in which the workers ran and the order in which the fetches resolved.
Thm_C21 ==
    [][\A g \in Slots :
          (go[g].pc = "pool" /\ go'[g].pc = "done") =>
              LET G == go[g]
                  expected(h) ==
                      IF G.searchPattern = "" \/ h.json_path = "" THEN <<>>
                      ELSE queryLoaded(parseLines(files[h.json_path]), G.searchPattern,
                                       G.selectedPayer, currentConfigType)
              IN /\ DOMAIN currentHitsById' = IdsOf(G.nearby)
                 /\ \A k \in DOMAIN G.nearby :
                        currentHitsById'[G.nearby[k].id] = expected(G.nearby[k])]_vars
Wit_C21 ==
    \E g \in Slots :
        /\ go[g].pc = "done"
        /\ cfg.pool = 1
        /\ Len(go[g].nearby) = 2
        /\ go[g].nearby[1].json_path = "b.json"
        /\ go[g].nearby[2].json_path = "a.json"
        /\ currentHitsById[1] # <<>>
        /\ currentHitsById[2] # <<>>
        /\ currentHitsById[1] # currentHitsById[2]

\* the workers of search g that hold the candidate index k (they claimed it and
\* have not stored its hits yet)
Holders(G, k) == {w \in DOMAIN G.workers : G.workers[w].st # "done" /\ G.workers[w].h = k}

\* C23: in the pool of a search the cursor only grows and never passes the
\* length of the candidate list; every index below the cursor has been claimed
\* exactly once (one worker holds it, or its hits are stored and no worker
\* holds it), and no index at or above the cursor has been claimed.
Thm_C23 ==
    [][\A g \in Slots :
          go'[g].pc \in {"pool", "done"} =>
              LET G == go'[g]
                  n == Len(G.nearby)
              IN /\ G.i \in 0..n
                 /\ go[g].pc = "pool" => G.i >= go[g].i
                 /\ \A k \in 1..n :
                        LET stored == IF G.nearby[k].id \in DOMAIN G.hitsById THEN 1 ELSE 0
                        IN Cardinality(Holders(G, k)) + stored = (IF k <= G.i THEN 1 ELSE 0)]_vars
Wit_C23 ==
    \E g \in Slots :
        /\ go[g].pc = "pool"
        /\ Len(go[g].nearby) = 5
        /\ go[g].i = 5
        /\ Cardinality(Holders(go[g], 5)) = 1
        /\ Cardinality({w \in DOMAIN go[g].workers : go[g].workers[w].st # "done"}) = 3
        /\ Cardinality(DOMAIN go[g].hitsById) = 2

\* C24: when more than 50 records of the data qualify, the hit list holds
\* exactly the first 50 qualifying records of the data (cut in file order,
\* then sorted): a qualifying record further down is not a hit, however low
\* its amount.
Thm_C24 ==
    (qry.pc = "out" /\ RegexCompiles(qry.regexOrCode)) =>
        LET data == qry.jsonData
            Qualifies(r) ==
                /\ \/ r.description \in RegexMatches[qry.regexOrCode]
                   \/ r[IF qry.configType = "revenue-code" THEN "rc_code" ELSE "code"]
                          \in RegexMatches[qry.regexOrCode]
                /\ qry.selectedPayer = "" \/ r.payer_name = qry.selectedPayer
            qualifying == {k \in DOMAIN data : Qualifies(data[k])}
            first50 == {k \in qualifying : Cardinality({m \in qualifying : m < k}) < 50}
        IN Cardinality(qualifying) > 50 =>
              /\ Len(qry.hits) = 50
              /\ \A k \in first50 :
                     Cardinality({j \in DOMAIN qry.hits : qry.hits[j] = data[k]})
                         = Cardinality({m \in first50 : data[m] = data[k]})
              /\ \A j \in DOMAIN qry.hits : \E k \in first50 : data[k] = qry.hits[j]
Wit_C24 ==
    /\ qry.pc = "out"
    /\ qry.regexOrCode = "MRI"
    /\ qry.selectedPayer = "Aetna"
    /\ Len(qry.jsonData) = BigLen + 2
    /\ Len(qry.hits) = 50
    /\ qry.jsonData[BigLen + 2] \notin Range(qry.hits)
    /\ \A j \in DOMAIN qry.hits :
          sortAmount(qry.jsonData[BigLen + 2]) < sortAmount(qry.hits[j])

\* C25: a hit list is non-decreasing by estimated_amount, a missing or
\* non-numeric estimated_amount counting as 0, and the hits that share a key
\* stand in the order they have in the file.
Thm_C25 ==
    (qry.pc = "out" /\ RegexCompiles(qry.regexOrCode)) =>
        LET Key(r) == IF r.estimated_amount = NaN THEN 0 ELSE r.estimated_amount[1]
            Qualifies(r) ==
                /\ \/ r.description \in RegexMatches[qry.regexOrCode]
                   \/ r[IF qry.configType = "revenue-code" THEN "rc_code" ELSE "code"]
                          \in RegexMatches[qry.regexOrCode]
                /\ qry.selectedPayer = "" \/ r.payer_name = qry.selectedPayer
            all == SelectSeq(qry.jsonData, Qualifies)
            kept == SubSeq(all, 1, IF Len(all) < 50 THEN Len(all) ELSE 50)
            WithKey(s, v) == SelectSeq(s, LAMBDA r : Key(r) = v)
        IN /\ \A j \in 1..Len(qry.hits) - 1 : Key(qry.hits[j]) <= Key(qry.hits[j + 1])
           /\ \A v \in {Key(kept[k]) : k \in DOMAIN kept} \cup
                         {Key(qry.hits[j]) : j \in DOMAIN qry.hits} :
                  WithKey(qry.hits, v) = WithKey(kept, v)
Wit_C25 ==
    /\ qry.pc = "out"
    /\ qry.jsonData = <<rXray, rCheap>>
    /\ qry.hits = <<rXray, rCheap>>
    /\ sortAmount(rXray) = sortAmount(rCheap)
    /\ rXray # rCheap

\* C26: getUniquePayers resolves only when the load of every listed hospital
\* with a json_path has returned, and a load that failed neither ends the
\* operation nor costs the other hospitals their payers: a failed load leaves
\* the payer set as it is and its task finished, and the payers returned are
\* those of the listed files whose load succeeded, sorted and without
\* duplicates.
Thm_C26 ==
    [][\A g \in Slots :
          LET G == go[g]
              loaded == {G.nearby[k].json_path : k \in DOMAIN G.nearby} \cap DOMAIN jsonCache'
          IN /\ (G.pc = "payers" /\ go'[g].pc # "payers") =>
                   /\ go'[g].pc = "pool"
                   /\ \A k \in DOMAIN G.tasks :
                          /\ G.tasks[k].st \notin {"fetching", "cached"}
                          /\ G.nearby[k].json_path # "" => G.tasks[k].st = "done"
                   /\ Range(payerOptions') =
                          UNION {payersOf(parseLines(files[p])) : p \in loaded}
                   /\ \A j \in 1..Len(payerOptions') - 1 :
                          StrRank[payerOptions'[j]] < StrRank[payerOptions'[j + 1]]
             /\ (G.pc = "payers" /\ go'[g].pc = "payers") =>
                   /\ G.payerSet \subseteq go'[g].payerSet
                   /\ \A k \in DOMAIN G.tasks :
                          /\ G.tasks[k].st \in {"skip", "done"} => go'[g].tasks[k] = G.tasks[k]
                          /\ (G.tasks[k].st = "fetching" /\ go'[g].tasks[k].st # "fetching"
                              /\ stats'[G.nearby[k].json_path].fails = 1) =>
                                 /\ go'[g].tasks[k].st = "done"
                                 /\ go'[g].payerSet = G.payerSet
                                 /\ \A j \in DOMAIN G.tasks \ {k} :
                                        go'[g].tasks[j] = G.tasks[j]]_vars
Wit_C26 ==
    \E g \in Slots :
        /\ go[g].pc = "pool"
        /\ status = "querying"
        /\ {go[g].nearby[k].json_path : k \in DOMAIN go[g].nearby} = {"a.json", "b.json"}
        /\ "a.json" \notin DOMAIN jsonCache
        /\ "b.json" \in DOMAIN jsonCache
        /\ payerOptions = <<"Aetna">>
        /\ "Cigna" \in payersOf(parseLines(files["a.json"]))

\* C27: jsonCache only grows: a step never removes an entry or changes the
\* sequence stored for a path, and every step that parses the file of a path
\* (the only steps that write) leaves under that path the parse of the file,
\* which is what an entry written earlier already holds; searches may overlap.
Thm_C27 ==
    [][\A p \in Paths :
          /\ p \in DOMAIN jsonCache => p \in DOMAIN jsonCache' /\ jsonCache'[p] = jsonCache[p]
          /\ stats'[p].parses >= 1 =>
                 /\ p \in DOMAIN jsonCache'
                 /\ jsonCache'[p] = parseLines(files[p])
          /\ (p \notin DOMAIN jsonCache /\ p \in DOMAIN jsonCache') => stats'[p].parses >= 1]_vars
\* the last step wrote the entry of a path that an overlapping search had
\* written already
Wit_C27 ==
    /\ parseCount["a.json"] >= 2
    /\ stats["a.json"].parses = 1
    /\ "a.json" \in DOMAIN jsonCache
    /\ jsonCache["a.json"] = parseLines(files["a.json"])
    /\ \A g \in Slots : go[g].pc \in {"payers", "pool"}

\* C28: when every fetch settles in the end, a search that has started
\* completes: the results are rendered and the status is the done message,
\* with every worker returned. And as long as the fetch of a worker is
\* unresolved (no hits are stored for its hospital) that worker keeps its
\* hospital and claims no other, and the search does not complete in a step
\* taken while a worker fetch is unresolved.
Thm_C28 ==
    /\ (go[1].pc \in {"payers", "pool"}) ~>
           (/\ go[1].pc = "done"
            /\ status = "done"
            /\ currentHospitalList = go[1].nearby
            /\ \A w \in DOMAIN go[1].workers : go[1].workers[w].st = "done")
    /\ [][\A g \in Slots :
             /\ \A w \in DOMAIN go[g].workers :
                    (/\ go[g].workers[w].st = "fetching"
                     /\ go[g].nearby[go[g].workers[w].h].id \notin DOMAIN go'[g].hitsById) =>
                        /\ go'[g].workers[w] = go[g].workers[w]
                        /\ go'[g].pc = "pool"
             /\ (\E w \in DOMAIN go[g].workers : go[g].workers[w].st = "fetching") =>
                    /\ go'[g].pc = go[g].pc
                    /\ go[g].pc = "pool"
                    /\ status' = status
                    /\ currentHitsById' = currentHitsById]_vars
\* one worker still waits for the fetch of the first hospital while the other
\* worker has taken every other hospital and returned
Wit_C28 ==
    /\ go[1].pc = "pool"
    /\ status = "querying"
    /\ Len(go[1].nearby) >= 3
    /\ go[1].i = Len(go[1].nearby)
    /\ go[1].workers[1] = [st |-> "fetching", h |-> 1, data |-> <<>>]
    /\ go[1].workers[2].st = "done"
    /\ DOMAIN go[1].hitsById = IdsOf(go[1].nearby) \ {go[1].nearby[1].id}

\* C29: a search with a pattern that does not compile runs to its end like
\* any other: each worker that gets the records of its hospital stores an
\* empty hit list for that hospital and goes on to the next hospital if one is
\* left, and the search completes with the done status and an empty hit list
\* for every candidate hospital.
Thm_C29 ==
    /\ (go[1].pc \in {"payers", "pool"} /\ go[1].searchPattern = BadPattern) ~>
           (/\ go[1].pc = "done"
            /\ status = "done"
            /\ currentHospitalList = go[1].nearby
            /\ DOMAIN currentHitsById = IdsOf(go[1].nearby)
            /\ \A id \in DOMAIN currentHitsById : currentHitsById[id] = <<>>)
    /\ [][\A g \in Slots : \A w \in DOMAIN go[g].workers :
             (/\ go[g].searchPattern = BadPattern
              /\ go[g].workers[w].st \in {"fetching", "cached"}
              /\ go'[g].workers[w] # go[g].workers[w]) =>
                 LET h == go[g].nearby[go[g].workers[w].h]
                 IN /\ go'[g].pc = "pool"
                    /\ h.id \in DOMAIN go'[g].hitsById
                    /\ go'[g].hitsById[h.id] = <<>>
                    /\ \A v \in DOMAIN go[g].workers \ {w} :
                           go'[g].workers[v] = go[g].workers[v]
                    /\ IF go[g].i < Len(go[g].nearby)
                       THEN go'[g].i > go[g].i /\ go'[g].workers[w].st # "done"
                       ELSE go'[g].workers[w].st = "done"]_vars
\* a finished search with the invalid pattern over hospitals whose file is
\* loaded and has records
Wit_C29 ==
    /\ go[1].pc = "done"
    /\ go[1].searchPattern = BadPattern
    /\ status = "done"
    /\ "a.json" \in DOMAIN jsonCache
    /\ jsonCache["a.json"] # <<>>
    /\ \E k \in DOMAIN go[1].nearby : go[1].nearby[k].json_path = "a.json"
    /\ DOMAIN currentHitsById = IdsOf(go[1].nearby)
    /\ \A id \in DOMAIN currentHitsById : currentHitsById[id] = <<>>

\* the configuration mode whose table holds the pattern
ModeOfPattern(p) ==
    IF p \in {services[n] : n \in DOMAIN services} THEN "service" ELSE "revenue-code"

\* C30: in a search whose pattern comes from a pattern table, the hits stored
\* for every hospital are those of a match against the code field of the mode
\* of that table (`code` for service, `rc_code` for revenue-code), whatever
\* the configuration mode is when the records of the hospital arrive.
Cex_C30 ==
    [][\A g \in Slots : \A w \in DOMAIN go[g].workers :
          (/\ go[g].pc = "pool"
           /\ go[g].searchPattern \in {services[n] : n \in DOMAIN services}
                                       \cup {revenueCodes[n] : n \in DOMAIN revenueCodes}
           /\ go[g].workers[w].st \in {"fetching", "cached"}
           /\ go'[g].workers[w] # go[g].workers[w]) =>
              LET G == go[g]
                  h == G.nearby[G.workers[w].h]
                  failed == /\ G.workers[w].st = "fetching"
                            /\ \E r \in returns' : r.via = "error" /\ r.path = h.json_path
              IN /\ h.id \in DOMAIN go'[g].hitsById
                 /\ go'[g].hitsById[h.id] =
                        IF failed THEN <<>>
                        ELSE queryLoaded(parseLines(files[h.json_path]), G.searchPattern,
                                         G.selectedPayer, ModeOfPattern(G.searchPattern))]_vars

\* C31: once every invocation of go() has finished, currentHospitalList and
\* currentHitsById are the hospital list and the hit map of the invocation
\* that was started last (uiEvents.slot).
Cex_C31 ==
    (/\ uiEvents.slot # 0
     /\ \A g \in Slots : go[g].pc \in {"idle", "done"}) =>
        /\ currentHospitalList = go[uiEvents.slot].nearby
        /\ currentHitsById = go[uiEvents.slot].hitsById

\* the hospitals of a search that have a chargemaster have pairwise distinct
\* paths
DistinctPaths(G) ==
    \A j, k \in DOMAIN G.nearby :
        (j # k /\ G.nearby[j].json_path # "") => G.nearby[j].json_path # G.nearby[k].json_path

\* C32: in a search over hospitals with pairwise distinct chargemaster paths
\* that no other search overlaps, a path is fetched at most once by the payer
\* aggregation and at most once by the workers, and a worker fetches a path
\* only while the path has no cache entry, that is after no successful load
\* of it in the session: a path whose payer fetch succeeded is fetched once,
\* any path at most twice.
Thm_C32 ==
    [][\A g \in Slots : \A p \in Paths :
          (go'[g].pc \in {"payers", "pool"} /\ DistinctPaths(go'[g])) =>
              LET before == IF go[g].pc \in {"payers", "pool"} THEN go[g].fetches[p] ELSE 0
                  after == go'[g].fetches[p]
              IN /\ after <= 2
                 /\ go'[g].pc = "payers" => after <= 1
                 /\ after - before \in {0, 1}
                 /\ after - before = stats'[p].fetches
                 /\ after > before => p \notin DOMAIN jsonCache /\ p \notin DOMAIN jsonCache'
                 /\ (p \in DOMAIN jsonCache /\ go[g].pc = "payers" /\ go'[g].pc = "pool") =>
                        after = before /\ after <= 1]_vars
\* a finished search over a.json and b.json: the payer fetch of a.json failed
\* and a worker fetched it again, b.json was fetched once
Wit_C32 ==
    \E g \in Slots :
        /\ go[g].pc = "done"
        /\ uiEvents.go = 1
        /\ {go[g].nearby[k].json_path : k \in DOMAIN go[g].nearby} = {"a.json", "b.json"}
        /\ go[g].fetches["a.json"] = 2
        /\ go[g].fetches["b.json"] = 1
        /\ "b.json" \in DOMAIN jsonCache

\* C33: queries and payer aggregation leave the cached arrays alone: a step
\* that parses no file leaves jsonCache as it is, every entry is at all times
\* the records of its file in file order, and a query that works on a cached
\* array returns what the query of the file returns, so that equal queries
\* give equal hit lists however many queries went before.
Thm_C33 ==
    [][/\ (\A p \in Paths : stats'[p].parses = 0) => jsonCache' = jsonCache
       /\ \A p \in DOMAIN jsonCache' : jsonCache'[p] = parseLines(files[p])
       /\ \A g \in Slots : \A w \in DOMAIN go[g].workers :
             (/\ go[g].pc = "pool"
              /\ go[g].workers[w].st = "cached"
              /\ go'[g].workers[w] # go[g].workers[w]) =>
                 LET h == go[g].nearby[go[g].workers[w].h]
                 IN /\ h.json_path \in DOMAIN jsonCache
                    /\ go'[g].hitsById[h.id] =
                           queryLoaded(parseLines(files[h.json_path]), go[g].searchPattern,
                                       go[g].selectedPayer, currentConfigType)]_vars
\* the second search over two hospitals that share a.json has finished: the
\* entry is still the file in file order, which is not the order of the
\* amounts, and both hospitals have the same non-empty hit list
Wit_C33 ==
    /\ uiEvents.go = 2
    /\ uiEvents.config = 0
    /\ go[1].pc = "done"
    /\ Len(go[1].nearby) = 2
    /\ \A k \in 1..2 : go[1].nearby[k].json_path = "a.json"
    /\ "a.json" \in DOMAIN jsonCache
    /\ jsonCache["a.json"] = parseLines(files["a.json"])
    /\ sortMatches(jsonCache["a.json"]) # jsonCache["a.json"]
    /\ currentHitsById[1] = currentHitsById[2]
    /\ currentHitsById[1] # <<>>

\* C34: a payer that getUniquePayers returns for a file selects at least one
\* record of it: with a pattern that matches every record of the file, the
\* query of the file filtered by that payer has a hit.
Cex_C34 ==
    (/\ qry.pc = "out"
     /\ RegexCompiles(qry.regexOrCode)
     /\ \A k \in DOMAIN qry.jsonData :
            recordMatches(qry.jsonData[k], qry.regexOrCode, "", qry.configType)
     /\ qry.selectedPayer \in payersOf(qry.jsonData)) =>
        qry.hits # <<>>

\* C35: when a search finishes and renders its results, the payer its hit
\* lists were filtered by is the payer the dropdown shows as selected.
Cex_C35 ==
    [][\A g \in Slots :
          (go[g].pc = "pool" /\ go'[g].pc = "done") => go[g].selectedPayer = payerValue']_vars

\* C36: queryHospitalParquet and queryHospitalCSV return no record when the
\* pattern is empty or the file cannot be fetched or decoded; otherwise they
\* return at most 50 records, those of the first 50 rows in source order whose
\* description matches the pattern, in non-decreasing order of
\* estimated_amount, a missing amount counting as 0.
Thm_C36 ==
    alt.pc = "out" =>
        LET p == alt.regexOrCode
            failed == p = "" \/ ~alt.ok \/ (alt.variant = "parquet" /\ ~alt.decodes)
            CsvAmount == ("40" :> 40) @@ ("100" :> 100) @@ ("300" :> 300)
            RowKey(row) ==
                LET a == row.estimated_amount
                IN IF Len(a) = 0 THEN 0
                   ELSE IF alt.variant = "parquet" THEN a[1]
                   ELSE IF a[1] \in DOMAIN CsvAmount THEN CsvAmount[a[1]] ELSE 0
            HitKey(r) == IF Len(r.estimated_amount) = 0 THEN 0 ELSE r.estimated_amount[1]
            matching == {k \in DOMAIN alt.rows : alt.rows[k].description \in RegexMatches[p]}
            first50 == {k \in matching : Cardinality({m \in matching : m < k}) < 50}
        IN /\ failed => alt.hits = <<>>
           /\ (~failed /\ ~RegexCompiles(p)) => alt.hits = <<>>
           /\ (~failed /\ RegexCompiles(p)) =>
                 /\ Len(alt.hits) <= 50
                 /\ Len(alt.hits) = Cardinality(first50)
                 /\ \A j \in 1..Len(alt.hits) - 1 :
                        HitKey(alt.hits[j]) <= HitKey(alt.hits[j + 1])
                 /\ \A k \in first50 :
                        Cardinality({j \in DOMAIN alt.hits :
                                        /\ alt.hits[j].description = alt.rows[k].description
                                        /\ HitKey(alt.hits[j]) = RowKey(alt.rows[k])})
                          = Cardinality({m \in first50 :
                                        /\ alt.rows[m].description = alt.rows[k].description
                                        /\ RowKey(alt.rows[m]) = RowKey(alt.rows[k])})
Wit_C36 ==
    /\ alt.pc = "out"
    /\ alt.variant = "parquet"
    /\ alt.regexOrCode = "MRI"
    /\ alt.ok /\ alt.decodes
    /\ Len(alt.rows) = BigLen + 1
    /\ Len(alt.hits) = 50
    /\ alt.hits[1].estimated_amount = Num(3)
    /\ alt.hits[50].estimated_amount = Num(BigLen)
    /\ alt.rows[2].estimated_amount = Num(BigLen)
    /\ alt.rows[BigLen + 1].estimated_amount = Num(1)
    /\ \A j \in DOMAIN alt.hits : alt.hits[j].estimated_amount # Num(1)

====
